---- MODULE Spec2Model ----
(***************************************************************************)
(* Model of the navigation assistant: the voice notification manager       *)
(* (src/src/audio/tts_engine.py), the GUI handler that feeds it            *)
(* (src/src/gui/main_window.py) and the capture worker                     *)
(* (src/src/core/video_processor.py).                                      *)
(*                                                                         *)
(* Time is counted in whole clock units; time.time() is the variable now,  *)
(* advanced by Tick and never decreasing.  One handler reads the clock     *)
(* once: the calls of time.time() inside one GUI handler are microseconds  *)
(* apart and fall into the same unit.                                      *)
(***************************************************************************)
EXTENDS Integers, Sequences, FiniteSets, TLC

(* ----------------------------- bounds ---------------------------------- *)
MaxTime == 3
MaxCooldown == 2
MaxDets == 2
MaxCount == 2
MaxStarts == 2
MaxWidth == 6
MaxFrames == 2

(* ------------------------- program constants --------------------------- *)
ZONE_NAMES == <<"gauche", "milieu", "droite">>
Zones == {ZONE_NAMES[i] : i \in 1..Len(ZONE_NAMES)}
NO_DETECTION_ID == "no_detection"
NO_DETECTION_MESSAGE == "Aucun objet détecté"
\* "no time recorded"
NoTime == 0 - 1
EmptyMap == [key \in {} |-> NoTime]

VARIABLES
    now,               \* time.time()
    cooldown,          \* VoiceNotificationManager.cooldown
    last_spoken_time,  \* VoiceNotificationManager.last_spoken_time (a dict)
    spoken_objects,    \* VoiceNotificationManager.spoken_objects (a set)
    message_queue,     \* TTSEngine.message_queue
    voice_checkbox,    \* NavigationAssistantGUI.voice_checkbox.isChecked()
    zone_checkbox,     \* NavigationAssistantGUI.zone_checkbox.isChecked()
    \* history variables (not program state)
    last_op,           \* the operation that made the last step; for a frame, with
                       \*   the frame's set of keys
    emitted,           \* the speech requests the last step enqueued: <<id, kind>>,
                       \*   kind "first", "repeat" (id still recorded) or "return"
                       \*   (id requested before and dropped since)
    last_request,      \* id -> time of the latest speech request for it
    dropped,           \* ids removed from last_spoken_time since their latest request
    kinds              \* <<kind of the frame before, kind of the latest frame>>

voiceVars == <<now, cooldown, last_spoken_time, spoken_objects, message_queue,
               voice_checkbox, zone_checkbox, last_op, emitted, last_request,
               dropped, kinds>>

\* VideoProcessorThread and the control (GUI) thread that drives it
VARIABLES
    wpc,               \* where the worker is in run(); "idle": no thread is running
    cpc,               \* where the control thread is in stop(); "idle": not in stop()
    running,           \* VideoProcessorThread.running
    paused,            \* VideoProcessorThread.paused
    source_type,       \* VideoProcessorThread.source_type
    cap,               \* run()'s local cap: "none" or "open"
    handles,           \* capture handles opened and not released
    \* history variables (not program state), reset by each start()
    starts,            \* how many times the thread has been started
    camera_errors,     \* camera_error events of this run
    frames,            \* frame_ready events of this run, counted up to MaxFrames
    fps_updates,       \* fps_update events of this run, counted up to MaxFrames
    open_failed,       \* _open_video_source returned None in this run
    fault,             \* where this run raised: "none", "init", "read", "process"
    set_running,       \* this run has executed self.running = True
    stop_requested,    \* stop() has set the flag while this run was alive
    iters_after_stop,  \* loop iterations begun since then, counted up to 2
    killed             \* this run was ended by terminate()

\* configuration, capture position, detector and tracker
VARIABLES
    flip_frame,        \* VideoProcessorThread.flip_frame
    frame_flipped,     \* the frame in progress: flip_frame as read to flip it, or "none"
    frame_overlay,     \* the frame in progress: flip_frame as read for the overlay, or "none"
    at_start,          \* the capture is positioned at frame 0
    current_model,     \* YOLODetector.current_model
    tracker,           \* VideoProcessorThread.tracker: the model it is bound to, or "none"
    \* history variables (not program state)
    ended,             \* this run met the end of a live stream
    paused_work,       \* what the loop has done since pause() while the flag was set
    paused_twice       \* ... and it did one of these things twice

pipeVars == <<wpc, cpc, running, paused, source_type, cap, handles, starts,
              camera_errors, frames, fps_updates, open_failed, fault, set_running,
              stop_requested, iters_after_stop, killed,
              flip_frame, frame_flipped, frame_overlay, at_start, current_model,
              tracker, ended, paused_work, paused_twice>>

\* the GUI thread's event queue and who calls into the manager and the recorder
VARIABLES
    pending,           \* frame_ready events posted to the GUI thread and not yet
                       \*   delivered, counted up to MaxFrames
    \* history variables (not program state)
    lst_writers,       \* the threads that have run code mutating last_spoken_time
    rec_writers,       \* the threads that have run code mutating the recorder
    counts             \* <<the group counts of the frame before, those of the latest
                       \*   frame>>, where the handler is followed frame by frame

guiVars == <<pending, lst_writers, rec_writers, counts>>

\* TTSEngine's worker
VARIABLES
    tts_pc,            \* where the speech worker is in run(): "test", "poll", "say",
                       \*   "speaking"; "done": run() has returned or was terminated
    tts_message,       \* run()'s local message: the text popped, or "none"
    engine,            \* the utterance pyttsx3 is speaking, or "none"
    tts_running,       \* TTSEngine.running
    tts_stop_pc,       \* where the caller of TTSEngine.stop() is in it, or "idle"
    \* history variables (not program state)
    speak_order,       \* the messages passed to speak() by Speak, in call order
    said,              \* the messages of speak_order whose utterance has begun, in order
    removed,           \* the messages cleared from the queue before they were taken
    failed,            \* the messages whose say() or runAndWait() raised
    tts_stopped        \* stop() has returned

ttsStop == <<tts_running, tts_stop_pc, tts_stopped>>
ttsVars == <<tts_pc, tts_message, engine, speak_order, said, removed, failed, ttsStop>>

\* VideoRecorder
VARIABLES
    is_recording_flag, \* VideoRecorder.is_recording_flag
    writer,            \* VideoRecorder.writer: "none", "open" or "unopened"
    output_path,       \* VideoRecorder.output_path, or "none"
    frame_count,       \* VideoRecorder.frame_count
    start_time,        \* VideoRecorder.start_time, or NoTime
    \* history variables (not program state)
    writers_created,   \* cv2.VideoWriter objects opened and not released
    rec_return         \* what the latest recorder call returned or raised

recVars == <<is_recording_flag, writer, output_path, frame_count, start_time,
             writers_created, rec_return>>

\* ZoneDetector, YOLODetector's models and what _process_frame works on
VARIABLES
    frame_width,       \* ZoneDetector.frame_width; NoWidth while zone_detector is None
    left_boundary,     \* ZoneDetector.left_boundary
    right_boundary,    \* ZoneDetector.right_boundary
    models,            \* the names YOLODetector.models holds a loaded model for
    current_model_name,\* YOLODetector.current_model_name
    conf_threshold,    \* VideoProcessorThread.conf_threshold, in hundredths
    frame_detections,  \* _process_frame's detections of the frame in progress
    divisions,         \* ZoneDetector.divisions; NoWidth while zone_detector is None
    \* the environment
    src_width,         \* the width of the frames the source delivers
    scene,             \* the bounding boxes a model finds in the frames
    \* history variables (not program state)
    zone_call,         \* the latest get_zone call: its arguments and its result
    switch_return      \* what the latest switch_model call returned, if any

zoneFields == <<frame_width, left_boundary, right_boundary, divisions>>
procRest == <<models, conf_threshold, src_width, scene, zone_call,
              current_model_name, switch_return>>
procVars == <<zoneFields, frame_detections, procRest>>

vars == <<voiceVars, pipeVars, guiVars, ttsVars, recVars, procVars>>

sideRest == UNCHANGED <<guiVars, ttsVars, recVars>>
sideIdle == sideRest /\ UNCHANGED procVars

(* ------------------------------ helpers -------------------------------- *)
\* f"{class_name}_{zone}"
ObjectZoneId(class_name, zone) == class_name \o "_" \o zone

\* the detections the frames are built from
Detections ==
    {[class |-> "person", zone |-> "gauche"],
     [class |-> "chair", zone |-> "droite"]}
DetKey(det) == ObjectZoneId(det.class, det.zone)
ObjectIds == {DetKey(d) : d \in Detections}
AllIds == ObjectIds \cup {NO_DETECTION_ID}

RECURSIVE SeqsUpTo(_, _)
SeqsUpTo(S, n) ==
    IF n = 0 THEN {<<>>}
    ELSE LET shorter == SeqsUpTo(S, n - 1)
         IN shorter \cup {Append(s, x) : s \in {q \in shorter : Len(q) = n - 1}, x \in S}

Frames == SeqsUpTo(Detections, MaxDets)

\* the manager's state as one value, so that a handler can chain its calls
Manager ==
    [lst |-> last_spoken_time, so |-> spoken_objects, q |-> message_queue,
     em |-> {}, lr |-> last_request, dr |-> dropped]

\* history: what a request for id is, given the state it is made in
RequestKind(m, id) ==
    IF id \in DOMAIN m.lst THEN "repeat"
    ELSE IF m.lr[id] = NoTime THEN "first" ELSE "return"

\* dict[key] = value
Record(dict, key, value) ==
    [k \in DOMAIN dict \cup {key} |-> IF k = key THEN value ELSE dict[k]]

(* --------------------- VoiceNotificationManager ------------------------ *)
\* TTSEngine.speak(message): append to the queue (immediate = False)
speak(q, message) == Append(q, message)

\* a cooldown test that still holds at exactly one cooldown
InCooldown_Inclusive(m, t, id) ==
    id \in DOMAIN m.lst /\ t - m.lst[id] <= cooldown

\* the cooldown test of announce_detection: True means "return, say nothing"
InCooldown(m, t, id) ==
    id \in DOMAIN m.lst /\ t - m.lst[id] < cooldown

\* the text announce_detection builds
DetectionMessage(class_name, zone, include_zone, count) ==
    LET base == IF count > 1 THEN ToString(count) \o " " \o class_name
                ELSE class_name
    IN IF include_zone THEN base \o " à " \o zone ELSE base

\* an announce_detection that speaks without recording the time
announce_detection_NoRecord(m, t, class_name, zone, include_zone, count) ==
    LET id == ObjectZoneId(class_name, zone)
    IN IF id \in DOMAIN m.lst /\ t - m.lst[id] < cooldown THEN m
       ELSE [m EXCEPT
               !.q = Append(@, class_name),
               !.so = @ \cup {id},
               !.em = @ \cup {<<id, "repeat">>},
               !.lr = [@ EXCEPT ![id] = t]]

\* an announce_detection that refreshes the recorded time of a key it keeps
\* silent about
announce_detection_Refresh(m, t, class_name, zone, include_zone, count) ==
    LET id == ObjectZoneId(class_name, zone)
    IN IF InCooldown(m, t, id) THEN [m EXCEPT !.lst = Record(@, id, t)]
       ELSE [m EXCEPT
               !.q = speak(@, DetectionMessage(class_name, zone, include_zone, count)),
               !.lst = Record(@, id, t),
               !.so = @ \cup {id},
               !.em = @ \cup {<<id, RequestKind(m, id)>>},
               !.lr = [@ EXCEPT ![id] = t],
               !.dr = @ \ {id}]

\* an announce_detection whose cooldown test only holds back a single object
announce_detection_CountBypass(m, t, class_name, zone, include_zone, count) ==
    LET id == ObjectZoneId(class_name, zone)
    IN IF InCooldown(m, t, id) /\ count = 1 THEN m
       ELSE [m EXCEPT
               !.q = speak(@, DetectionMessage(class_name, zone, include_zone, count)),
               !.lst = Record(@, id, t),
               !.so = @ \cup {id},
               !.em = @ \cup {<<id, RequestKind(m, id)>>},
               !.lr = [@ EXCEPT ![id] = t],
               !.dr = @ \ {id}]

announce_detection(m, t, class_name, zone, include_zone, count) ==
    LET id == ObjectZoneId(class_name, zone)
    IN IF InCooldown(m, t, id) THEN m
       ELSE [m EXCEPT
               !.q = speak(@, DetectionMessage(class_name, zone, include_zone, count)),
               !.lst = Record(@, id, t),
               !.so = @ \cup {id},
               !.em = @ \cup {<<id, RequestKind(m, id)>>},
               !.lr = [@ EXCEPT ![id] = t],
               !.dr = @ \ {id}]

\* a test that announces again at exactly one cooldown
NoDetectionDue_AtCooldown(m, t) ==
    NO_DETECTION_ID \notin DOMAIN m.lst \/ t - m.lst[NO_DETECTION_ID] >= cooldown

\* the test of announce_no_detection: True means "announce"
NoDetectionDue(m, t) ==
    NO_DETECTION_ID \notin DOMAIN m.lst \/ t - m.lst[NO_DETECTION_ID] > cooldown

announce_no_detection(m, t) ==
    IF NoDetectionDue(m, t)
    THEN [m EXCEPT
            !.q = speak(@, NO_DETECTION_MESSAGE),
            !.lst = Record(@, NO_DETECTION_ID, t),
            !.so = {},
            !.em = @ \cup {<<NO_DETECTION_ID, RequestKind(m, NO_DETECTION_ID)>>},
            !.lr = [@ EXCEPT ![NO_DETECTION_ID] = t],
            !.dr = @ \ {NO_DETECTION_ID}]
    ELSE m

\* a cleanup that does not spare the reserved key
keys_to_remove_NoReserved(m, current_objects) ==
    {key \in DOMAIN m.lst : key \notin current_objects}

\* a cleanup that deletes nothing
keys_to_remove_None(m, current_objects) == {}

\* the keys cleanup_old_objects deletes
keys_to_remove(m, current_objects) ==
    {key \in DOMAIN m.lst : key # NO_DETECTION_ID /\ key \notin current_objects}

cleanup_old_objects(m, current_objects) ==
    LET gone == keys_to_remove(m, current_objects)
    IN [m EXCEPT
          !.lst = [key \in DOMAIN m.lst \ gone |-> m.lst[key]],
          !.dr = @ \cup gone]

reset(m) ==
    [m EXCEPT !.lst = EmptyMap, !.so = {}, !.dr = @ \cup DOMAIN m.lst]

(* ------------------- NavigationAssistantGUI handler -------------------- *)
\* the keys of zone_objects in insertion order: the first occurrence of each
\* (class, zone) in the detection list
RECURSIVE GroupOrder(_)
GroupOrder(detections) ==
    IF detections = <<>> THEN <<>>
    ELSE LET front == SubSeq(detections, 1, Len(detections) - 1)
             det == detections[Len(detections)]
             before == GroupOrder(front)
         IN IF \E i \in 1..Len(before) : DetKey(before[i]) = DetKey(det) THEN before
            ELSE Append(before, det)

\* a count that stays at its initial value plus one
GroupCount_One(detections, det) == Cardinality({DetKey(det)})

\* zone_objects[key]["count"]
GroupCount(detections, det) ==
    Cardinality({i \in 1..Len(detections) : DetKey(detections[i]) = DetKey(det)})

\* current_objects
CurrentObjects(detections) == {DetKey(detections[i]) : i \in 1..Len(detections)}

\* the loop "for obj_info in zone_objects.values(): announce_detection(...)"
RECURSIVE AnnounceGroups(_, _, _, _, _)
AnnounceGroups(m, t, groups, detections, include_zone) ==
    IF groups = <<>> THEN m
    ELSE AnnounceGroups(
             announce_detection(m, t, groups[1].class, groups[1].zone,
                                include_zone, GroupCount(detections, groups[1])),
             t, Tail(groups), detections, include_zone)

handle_voice_notifications(m, t, detections) ==
    IF ~voice_checkbox THEN m
    ELSE IF detections = <<>> THEN announce_no_detection(m, t)
    ELSE cleanup_old_objects(
             AnnounceGroups(m, t, GroupOrder(detections), detections, zone_checkbox),
             CurrentObjects(detections))

FrameKind(detections) == IF detections = <<>> THEN "empty" ELSE "nonempty"

(* ------------------------------ actions -------------------------------- *)
\* The manager's part of the next state.  The manager only appends to the
\* queue and never reads it, so what it does is the same whatever the queue
\* holds: its calls, and the clock, are taken with the queue emptied by the
\* speech worker, which keeps the queue finite.
Becomes(m, op) ==
    /\ message_queue = <<>>
    /\ last_spoken_time' = m.lst
    /\ spoken_objects' = m.so
    /\ message_queue' = m.q
    /\ emitted' = m.em
    /\ last_request' = m.lr
    /\ dropped' = m.dr
    /\ last_op' = op
    /\ UNCHANGED pipeVars

Tick ==
    /\ now < MaxTime
    /\ message_queue = <<>>
    /\ now' = now + 1
    /\ last_op' = <<"other">>
    /\ emitted' = {}
    /\ UNCHANGED <<cooldown, last_spoken_time, spoken_objects, message_queue,
                   voice_checkbox, zone_checkbox, last_request, dropped, kinds>>
    /\ UNCHANGED pipeVars
    /\ sideIdle

\* TTSEngine.run, one iteration as a whole: the next message is taken from the
\* queue and spoken to its end
TTSTake ==
    /\ tts_pc = "test"
    /\ tts_running
    /\ message_queue # <<>>
    /\ message_queue' = Tail(message_queue)
    /\ last_op' = <<"other">>
    /\ emitted' = {}
    /\ UNCHANGED <<now, cooldown, last_spoken_time, spoken_objects,
                   voice_checkbox, zone_checkbox, last_request, dropped, kinds>>
    /\ UNCHANGED pipeVars
    /\ sideIdle

AnnounceDetection(class_name, zone, include_zone, count) ==
    /\ Becomes(announce_detection(Manager, now, class_name, zone, include_zone, count),
               <<"announce_detection", ObjectZoneId(class_name, zone)>>)
    /\ UNCHANGED <<now, cooldown, voice_checkbox, zone_checkbox, kinds>>
    /\ sideIdle

AnnounceNoDetection ==
    /\ Becomes(announce_no_detection(Manager, now), <<"announce_no_detection">>)
    /\ UNCHANGED <<now, cooldown, voice_checkbox, zone_checkbox, kinds>>
    /\ sideIdle

CleanupOldObjects(current_objects) ==
    /\ Becomes(cleanup_old_objects(Manager, current_objects), <<"cleanup_old_objects">>)
    /\ UNCHANGED <<now, cooldown, voice_checkbox, zone_checkbox, kinds>>
    /\ sideIdle

Reset ==
    /\ Becomes(reset(Manager), <<"reset">>)
    /\ UNCHANGED <<now, cooldown, voice_checkbox, zone_checkbox, kinds>>
    /\ sideIdle

HandleVoiceNotifications(detections) ==
    /\ Becomes(handle_voice_notifications(Manager, now, detections),
               <<"handle_voice_notifications", CurrentObjects(detections)>>)
    /\ kinds' = IF voice_checkbox THEN <<kinds[2], FrameKind(detections)>> ELSE kinds
    /\ UNCHANGED <<now, cooldown, voice_checkbox, zone_checkbox>>

ToggleVoice ==
    /\ voice_checkbox' = ~voice_checkbox
    /\ last_op' = <<"other">>
    /\ emitted' = {}
    /\ UNCHANGED <<now, cooldown, last_spoken_time, spoken_objects, message_queue,
                   zone_checkbox, last_request, dropped, kinds>>
    /\ UNCHANGED pipeVars
    /\ sideIdle

ToggleZone ==
    /\ zone_checkbox' = ~zone_checkbox
    /\ last_op' = <<"other">>
    /\ emitted' = {}
    /\ UNCHANGED <<now, cooldown, last_spoken_time, spoken_objects, message_queue,
                   voice_checkbox, last_request, dropped, kinds>>
    /\ UNCHANGED pipeVars
    /\ sideIdle

InitVoice ==
    /\ now = 0
    /\ cooldown \in 1..MaxCooldown
    /\ last_spoken_time = EmptyMap
    /\ spoken_objects = {}
    /\ message_queue = <<>>
    /\ voice_checkbox = TRUE
    /\ zone_checkbox = TRUE
    /\ last_op = <<"other">>
    /\ emitted = {}
    /\ last_request = [id \in AllIds |-> NoTime]
    /\ dropped = {}
    /\ kinds = <<"none", "none">>


(* ----------------------------- ZoneDetector ---------------------------- *)
NoWidth == 0 - 1
Widths == 0 .. MaxWidth
\* None, for an optional argument
NoArg == <<>>

\* the zone detector's state as one value
ZoneDetector ==
    [frame_width |-> frame_width, left_boundary |-> left_boundary,
     right_boundary |-> right_boundary, divisions |-> divisions]

\* an update_boundaries that rounds the left boundary up
update_boundaries_Ceil(z, width) ==
    [z EXCEPT !.frame_width = width,
              !.left_boundary = (width + 2) \div 3,
              !.right_boundary = (2 * width) \div 3]

\* update_boundaries(frame_width)
update_boundaries(z, width) ==
    [z EXCEPT !.frame_width = width,
              !.left_boundary = width \div 3,
              !.right_boundary = (2 * width) \div 3]

\* the default of __init__'s parameter divisions
DefaultDivisions == 3

\* ZoneDetector(frame_width, divisions): __init__
ZoneDetectorInit(width, divs) ==
    update_boundaries([frame_width |-> width, left_boundary |-> NoWidth,
                       right_boundary |-> NoWidth, divisions |-> divs], width)

\* ZoneDetector(frame_width): __init__ with divisions = 3
NewZoneDetector(width) == ZoneDetectorInit(width, DefaultDivisions)

\* a get_zone for which the right boundary belongs to the right zone
get_zone_RightClosed(z, bbox, center_x) ==
    LET cx == IF center_x = NoArg /\ bbox # NoArg
              THEN <<(bbox[1] + bbox[3]) \div 2>>
              ELSE center_x
    IN  IF cx = NoArg THEN "milieu"
        ELSE IF cx[1] < z.left_boundary THEN "gauche"
        ELSE IF cx[1] >= z.right_boundary THEN "droite"
        ELSE "milieu"

\* get_zone(bbox, center_x): bbox is <<x1, y1, x2, y2>> or NoArg, center_x is
\* <<c>> or NoArg
get_zone(z, bbox, center_x) ==
    LET cx == IF center_x = NoArg /\ bbox # NoArg
              THEN <<(bbox[1] + bbox[3]) \div 2>>
              ELSE center_x
    IN  IF cx = NoArg THEN "milieu"
        ELSE IF cx[1] < z.left_boundary THEN "gauche"
        ELSE IF cx[1] > z.right_boundary THEN "droite"
        ELSE "milieu"

\* draw_zones(frame), as far as the detector's state goes: width is the
\* frame's
draw_zones(z, width) ==
    IF width # z.frame_width THEN update_boundaries(z, width) ELSE z

\* the zone detector's part of the next state
ZoneBecomes(z) ==
    /\ frame_width' = z.frame_width
    /\ left_boundary' = z.left_boundary
    /\ right_boundary' = z.right_boundary
    /\ divisions' = z.divisions

zoneRest ==
    UNCHANGED <<voiceVars, pipeVars, guiVars, ttsVars, recVars, frame_detections,
                models, conf_threshold, src_width, scene, current_model_name,
                switch_return>>

\* ZoneDetector(width)
ZD_New(width) ==
    /\ ZoneBecomes(NewZoneDetector(width))
    /\ zone_call' = <<>>
    /\ zoneRest

\* ZoneDetector(width, divs)
ZD_NewDivisions(width, divs) ==
    /\ ZoneBecomes(ZoneDetectorInit(width, divs))
    /\ zone_call' = <<>>
    /\ zoneRest

\* update_boundaries(width) on a detector that exists
UpdateBoundaries(width) ==
    /\ frame_width # NoWidth
    /\ ZoneBecomes(update_boundaries(ZoneDetector, width))
    /\ zone_call' = <<>>
    /\ zoneRest

\* a get_zone that recomputes the boundaries for the frame it is given
GetZone_Recompute(bbox, center_x) ==
    /\ frame_width # NoWidth
    /\ zone_call' = <<[bbox |-> bbox, center_x |-> center_x,
                       zone |-> get_zone(ZoneDetector, bbox, center_x)]>>
    /\ ZoneBecomes(update_boundaries(ZoneDetector, src_width))
    /\ zoneRest

\* get_zone(bbox, center_x) on a detector that exists: it assigns no field
GetZone(bbox, center_x) ==
    /\ frame_width # NoWidth
    /\ zone_call' = <<[bbox |-> bbox, center_x |-> center_x,
                       zone |-> get_zone(ZoneDetector, bbox, center_x)]>>
    /\ UNCHANGED zoneFields
    /\ zoneRest

\* draw_zones(frame) on a detector that exists, for a frame of this width
DrawZones(width) ==
    /\ frame_width # NoWidth
    /\ ZoneBecomes(draw_zones(ZoneDetector, width))
    /\ zone_call' = <<>>
    /\ zoneRest

\* the widths, coordinates and boxes the zone detector is driven with
ZoneWidths == Widths \cup {900}
Coords == ((0 - 1) .. (MaxWidth + 1)) \cup {150, 450, 800}
BBoxes == {<<x1, 0, x2, 0>> : x1 \in Coords, x2 \in Coords}
BBoxArgs == {NoArg} \cup {b \in BBoxes : b[1] <= b[3] /\ b[3] <= b[1] + 1}
CenterArgs == {NoArg} \cup {<<c>> : c \in Coords}

InitZone ==
    /\ frame_width = NoWidth
    /\ left_boundary = NoWidth
    /\ right_boundary = NoWidth
    /\ divisions = NoWidth
    /\ zone_call = <<>>

NextZone ==
    \/ \E width \in ZoneWidths : ZD_New(width)
    \/ \E width \in ZoneWidths : UpdateBoundaries(width)
    \/ \E bbox \in BBoxArgs, center_x \in CenterArgs : GetZone(bbox, center_x)
    \/ \E width \in ZoneWidths : DrawZones(width)

\* the detector constructed with a number of divisions and asked for the zone
\* of a centre
DivisionCounts == 2 .. 4

NextDivisions ==
    \/ \E width \in ZoneWidths, divs \in DivisionCounts : ZD_NewDivisions(width, divs)
    \/ \E width \in ZoneWidths : UpdateBoundaries(width)
    \/ \E center_x \in CenterArgs : GetZone(NoArg, center_x)
    \/ \E width \in ZoneWidths : DrawZones(width)

(* ------------------------ VideoProcessorThread ------------------------- *)
SourceTypes == {"webcam", "external_camera", "file"}

\* the models YOLODetector.load_all_models loads, and one it finds no file for
LoadedModels == {"yolov8n", "yolo11n"}
ModelNames == LoadedModels \cup {"yolo8_personnalisé"}
\* the names set_model is called with: those, and one the detector does not know
SwitchNames == ModelNames \cup {"yolo12n"}
DEFAULT_MODEL == "yolov8n"

Min(a, b) == IF a < b THEN a ELSE b
Max(a, b) == IF a > b THEN a ELSE b

\* settings.py, in hundredths
DEFAULT_CONF_THRESHOLD == 25
MIN_CONF_THRESHOLD == 1
MAX_CONF_THRESHOLD == 100

\* signal emissions of the run in progress
EmitCameraError == camera_errors' = Min(camera_errors + 1, 2)
EmitFrameReady == frames' = Min(frames + 1, MaxFrames)
EmitFpsUpdate == fps_updates' = Min(fps_updates + 1, MaxFrames)

voiceIdle == UNCHANGED voiceVars

\* history: kind is done by the loop; it counts while the paused flag is set
PausedWork(kind) ==
    IF paused
    THEN /\ paused_work' = paused_work \cup {kind}
         /\ paused_twice' = (paused_twice \/ kind \in paused_work)
    ELSE UNCHANGED <<paused_work, paused_twice>>

\* QThread.start(): run() begins in a new thread; nothing happens if the
\* thread is running.  The control thread is not inside stop().
Start ==
    /\ cpc = "idle"
    /\ wpc = "idle"
    /\ starts < MaxStarts
    /\ starts' = starts + 1
    /\ wpc' = "open"
    /\ cap' = "none"
    /\ camera_errors' = 0
    /\ frames' = 0
    /\ fps_updates' = 0
    /\ open_failed' = FALSE
    /\ fault' = "none"
    /\ set_running' = FALSE
    /\ stop_requested' = FALSE
    /\ iters_after_stop' = 0
    /\ killed' = FALSE
    /\ ended' = FALSE
    /\ UNCHANGED <<cpc, running, paused, source_type, handles>>
    /\ UNCHANGED <<flip_frame, frame_flipped, frame_overlay, at_start, current_model,
                   tracker, paused_work, paused_twice>>
    /\ voiceIdle /\ sideIdle

\* _open_video_source: the capture opens, positioned at its first frame
W_OpenOk ==
    /\ wpc = "open"
    /\ cap' = "open"
    /\ handles' = handles + 1
    /\ at_start' = TRUE
    /\ wpc' = "init"
    /\ UNCHANGED <<cpc, running, paused, source_type, starts, camera_errors, frames,
                   fps_updates, open_failed, fault, set_running, stop_requested,
                   iters_after_stop, killed>>
    /\ UNCHANGED <<flip_frame, frame_flipped, frame_overlay, current_model, tracker,
                   ended, paused_work, paused_twice>>
    /\ voiceIdle /\ sideIdle

\* an open failure that is reported but does not end run()
W_OpenFail_Continue ==
    /\ wpc = "open"
    /\ EmitCameraError
    /\ open_failed' = TRUE
    /\ wpc' = "init"
    /\ UNCHANGED <<cpc, running, paused, source_type, cap, handles, starts, frames,
                   fps_updates, fault, set_running, stop_requested, iters_after_stop,
                   killed>>
    /\ UNCHANGED <<flip_frame, frame_flipped, frame_overlay, at_start, current_model,
                   tracker, ended, paused_work, paused_twice>>
    /\ voiceIdle /\ sideIdle

\* _open_video_source: the capture is not opened, or opening raises; either way
\* camera_error is emitted, None is returned and run() returns through finally
W_OpenFail ==
    /\ wpc = "open"
    /\ EmitCameraError
    /\ open_failed' = TRUE
    /\ wpc' = "finally"
    /\ UNCHANGED <<cpc, running, paused, source_type, cap, handles, starts, frames,
                   fps_updates, fault, set_running, stop_requested, iters_after_stop,
                   killed>>
    /\ UNCHANGED <<flip_frame, frame_flipped, frame_overlay, at_start, current_model,
                   tracker, ended, paused_work, paused_twice>>
    /\ voiceIdle /\ sideIdle

\* ObjectTracker(model): the tracker bound to the model, "no_model" for None
ObjectTracker(model) == IF model = "none" THEN "no_model" ELSE model

\* frame dimensions, tracker and zone detector: the tracker is created for the
\* detector's current model, the zone detector for the capture's frame width
W_Init ==
    /\ wpc = "init"
    /\ tracker' = ObjectTracker(current_model)
    /\ ZoneBecomes(NewZoneDetector(src_width))
    /\ wpc' = "set_running"
    /\ UNCHANGED <<cpc, running, paused, source_type, cap, handles, starts,
                   camera_errors, frames, fps_updates, open_failed, fault, set_running,
                   stop_requested, iters_after_stop, killed>>
    /\ UNCHANGED <<flip_frame, frame_flipped, frame_overlay, at_start, current_model,
                   ended, paused_work, paused_twice>>
    /\ UNCHANGED <<frame_detections, procRest>>
    /\ voiceIdle /\ sideRest

\* an exception at position at, caught by run()'s except clause
Raise(at) ==
    /\ wpc = at
    /\ fault' = at
    /\ wpc' = "except"
    /\ frame_flipped' = "none"
    /\ frame_overlay' = "none"
    /\ UNCHANGED <<cpc, running, paused, source_type, cap, handles, starts,
                   camera_errors, frames, fps_updates, open_failed, set_running,
                   stop_requested, iters_after_stop, killed>>
    /\ UNCHANGED <<flip_frame, at_start, current_model, tracker, ended>>
    /\ voiceIdle /\ sideIdle

W_InitRaise == Raise("init") /\ UNCHANGED <<paused_work, paused_twice>>

\* self.running = True
W_SetRunning ==
    /\ wpc = "set_running"
    /\ running' = TRUE
    /\ set_running' = TRUE
    /\ wpc' = "loop"
    /\ UNCHANGED <<cpc, paused, source_type, cap, handles, starts, camera_errors,
                   frames, fps_updates, open_failed, fault, stop_requested,
                   iters_after_stop, killed>>
    /\ UNCHANGED <<flip_frame, frame_flipped, frame_overlay, at_start, current_model,
                   tracker, ended, paused_work, paused_twice>>
    /\ voiceIdle /\ sideIdle

\* while self.running: the test
W_LoopTest ==
    /\ wpc = "loop"
    /\ wpc' = IF running THEN "paused_test" ELSE "finally"
    /\ iters_after_stop' = IF running /\ stop_requested
                           THEN Min(iters_after_stop + 1, 2) ELSE iters_after_stop
    /\ UNCHANGED <<cpc, running, paused, source_type, cap, handles, starts,
                   camera_errors, frames, fps_updates, open_failed, fault, set_running,
                   stop_requested, killed>>
    /\ UNCHANGED <<flip_frame, frame_flipped, frame_overlay, at_start, current_model,
                   tracker, ended, paused_work, paused_twice>>
    /\ voiceIdle /\ sideIdle

\* a test of the flag that lets the iteration go on whatever it reads
W_PausedTest_Ignore ==
    /\ wpc = "paused_test"
    /\ wpc' = "read"
    /\ UNCHANGED <<cpc, running, paused, source_type, cap, handles, starts,
                   camera_errors, frames, fps_updates, open_failed, fault, set_running,
                   stop_requested, iters_after_stop, killed>>
    /\ UNCHANGED <<flip_frame, frame_flipped, frame_overlay, at_start, current_model,
                   tracker, ended, paused_work, paused_twice>>
    /\ voiceIdle /\ sideIdle

\* a test of the flag with the condition negated
W_PausedTest_Negated ==
    /\ wpc = "paused_test"
    /\ wpc' = IF paused THEN "read" ELSE "loop"
    /\ UNCHANGED <<cpc, running, paused, source_type, cap, handles, starts,
                   camera_errors, frames, fps_updates, open_failed, fault, set_running,
                   stop_requested, iters_after_stop, killed>>
    /\ UNCHANGED <<flip_frame, frame_flipped, frame_overlay, at_start, current_model,
                   tracker, ended, paused_work, paused_twice>>
    /\ voiceIdle /\ sideIdle

\* if self.paused: sleep and continue
W_PausedTest ==
    /\ wpc = "paused_test"
    /\ wpc' = IF paused THEN "loop" ELSE "read"
    /\ UNCHANGED <<cpc, running, paused, source_type, cap, handles, starts,
                   camera_errors, frames, fps_updates, open_failed, fault, set_running,
                   stop_requested, iters_after_stop, killed>>
    /\ UNCHANGED <<flip_frame, frame_flipped, frame_overlay, at_start, current_model,
                   tracker, ended, paused_work, paused_twice>>
    /\ voiceIdle /\ sideIdle

\* cap.read() returns a frame
W_ReadOk ==
    /\ wpc = "read"
    /\ at_start' = FALSE
    /\ PausedWork("read")
    /\ wpc' = "flip"
    /\ UNCHANGED <<cpc, running, paused, source_type, cap, handles, starts,
                   camera_errors, frames, fps_updates, open_failed, fault, set_running,
                   stop_requested, iters_after_stop, killed>>
    /\ UNCHANGED <<flip_frame, frame_flipped, frame_overlay, current_model, tracker,
                   ended>>
    /\ voiceIdle /\ sideIdle

\* an end of stream after which every kind of source is read again
W_ReadEnd_Retry ==
    /\ wpc = "read"
    /\ at_start' = (source_type = "file" \/ at_start)
    /\ PausedWork("read")
    /\ wpc' = "loop"
    /\ UNCHANGED <<cpc, running, paused, source_type, cap, handles, starts,
                   camera_errors, frames, fps_updates, open_failed, fault, set_running,
                   stop_requested, iters_after_stop, killed>>
    /\ UNCHANGED <<flip_frame, frame_flipped, frame_overlay, current_model, tracker,
                   ended>>
    /\ voiceIdle /\ sideIdle

\* an end of a live stream that is reported as a camera error
W_ReadEnd_Report ==
    /\ wpc = "read"
    /\ IF source_type = "file"
       THEN /\ at_start' = TRUE
            /\ wpc' = "loop"
            /\ UNCHANGED <<ended, camera_errors>>
       ELSE /\ ended' = TRUE
            /\ EmitCameraError
            /\ wpc' = "finally"
            /\ UNCHANGED at_start
    /\ PausedWork("read")
    /\ UNCHANGED <<cpc, running, paused, source_type, cap, handles, starts,
                   frames, fps_updates, open_failed, fault, set_running,
                   stop_requested, iters_after_stop, killed>>
    /\ UNCHANGED <<flip_frame, frame_flipped, frame_overlay, current_model, tracker>>
    /\ voiceIdle /\ sideIdle

\* cap.read() returns no frame: a file is rewound to frame 0 and the loop goes
\* on, a live source ends the loop
W_ReadEnd ==
    /\ wpc = "read"
    /\ IF source_type = "file"
       THEN /\ at_start' = TRUE
            /\ wpc' = "loop"
            /\ UNCHANGED ended
       ELSE /\ ended' = TRUE
            /\ wpc' = "finally"
            /\ UNCHANGED at_start
    /\ PausedWork("read")
    /\ UNCHANGED <<cpc, running, paused, source_type, cap, handles, starts,
                   camera_errors, frames, fps_updates, open_failed, fault, set_running,
                   stop_requested, iters_after_stop, killed>>
    /\ UNCHANGED <<flip_frame, frame_flipped, frame_overlay, current_model, tracker>>
    /\ voiceIdle /\ sideIdle

W_ReadRaise == Raise("read") /\ PausedWork("read")

\* _process_frame: if self.flip_frame: frame = cv2.flip(frame, 1)
W_Flip ==
    /\ wpc = "flip"
    /\ frame_flipped' = flip_frame
    /\ wpc' = "process"
    /\ UNCHANGED <<cpc, running, paused, source_type, cap, handles, starts,
                   camera_errors, frames, fps_updates, open_failed, fault, set_running,
                   stop_requested, iters_after_stop, killed>>
    /\ UNCHANGED <<flip_frame, frame_overlay, at_start, current_model, tracker, ended,
                   paused_work, paused_twice>>
    /\ voiceIdle /\ sideIdle

\* ObjectTracker.track(frame, conf_threshold): nothing without a model, else
\* the boxes the model finds
track(trk) == IF trk = "no_model" THEN <<>> ELSE scene

\* the detections of a frame: each tracked object with the zone of its box
Zoned(z, tracked_objects) ==
    [i \in DOMAIN tracked_objects |->
        [bbox |-> tracked_objects[i],
         zone |-> get_zone(z, tracked_objects[i], NoArg)]]

\* a model is there to be asked: if self.tracker and self.detector.current_model
ProviderUsable == tracker # "none" /\ current_model # "none"

\* a _process_frame that does not draw the zones
W_Process_NoDraw ==
    /\ wpc = "process"
    /\ UNCHANGED zoneFields
    /\ frame_detections' = IF ProviderUsable
                           THEN Zoned(ZoneDetector, track(tracker))
                           ELSE <<>>
    /\ PausedWork("detect")
    /\ wpc' = "overlay"
    /\ UNCHANGED <<cpc, running, paused, source_type, cap, handles, starts,
                   camera_errors, frames, fps_updates, open_failed, fault, set_running,
                   stop_requested, iters_after_stop, killed>>
    /\ UNCHANGED <<flip_frame, frame_flipped, frame_overlay, at_start, current_model,
                   tracker, ended>>
    /\ UNCHANGED procRest
    /\ voiceIdle /\ sideRest

\* a _process_frame that asks the tracker whether or not there is a model
W_Process_Always ==
    /\ wpc = "process"
    /\ ZoneBecomes(draw_zones(ZoneDetector, src_width))
    /\ frame_detections' = Zoned(draw_zones(ZoneDetector, src_width), scene)
    /\ PausedWork("detect")
    /\ wpc' = "overlay"
    /\ UNCHANGED <<cpc, running, paused, source_type, cap, handles, starts,
                   camera_errors, frames, fps_updates, open_failed, fault, set_running,
                   stop_requested, iters_after_stop, killed>>
    /\ UNCHANGED <<flip_frame, frame_flipped, frame_overlay, at_start, current_model,
                   tracker, ended>>
    /\ UNCHANGED procRest
    /\ voiceIdle /\ sideRest

\* _process_frame: zones drawn for the frame's width, then
\* self.tracker.track(frame, conf_threshold) when there is a tracker and a
\* current model, and the zone of each tracked object
W_Process ==
    /\ wpc = "process"
    /\ ZoneBecomes(draw_zones(ZoneDetector, src_width))
    /\ frame_detections' = IF ProviderUsable
                           THEN Zoned(draw_zones(ZoneDetector, src_width),
                                      track(tracker))
                           ELSE <<>>
    /\ PausedWork("detect")
    /\ wpc' = "overlay"
    /\ UNCHANGED <<cpc, running, paused, source_type, cap, handles, starts,
                   camera_errors, frames, fps_updates, open_failed, fault, set_running,
                   stop_requested, iters_after_stop, killed>>
    /\ UNCHANGED <<flip_frame, frame_flipped, frame_overlay, at_start, current_model,
                   tracker, ended>>
    /\ UNCHANGED procRest
    /\ voiceIdle /\ sideRest

\* the model raises in track(): there is a model to ask
W_ProcessRaise ==
    /\ ProviderUsable /\ tracker # "no_model"
    /\ Raise("process") /\ PausedWork("detect")

\* _draw_overlays: "Miroir: ON" if self.flip_frame else "Miroir: OFF"
W_Overlay ==
    /\ wpc = "overlay"
    /\ frame_overlay' = flip_frame
    /\ wpc' = "fps"
    /\ UNCHANGED <<cpc, running, paused, source_type, cap, handles, starts,
                   camera_errors, frames, fps_updates, open_failed, fault, set_running,
                   stop_requested, iters_after_stop, killed>>
    /\ UNCHANGED <<flip_frame, frame_flipped, at_start, current_model, tracker, ended,
                   paused_work, paused_twice>>
    /\ voiceIdle /\ sideIdle

\* _update_fps: fps_update is emitted when the clock has advanced
W_UpdateFps ==
    /\ wpc = "fps"
    /\ wpc' = "emit"
    /\ \/ EmitFpsUpdate /\ PausedWork("fps_update")
       \/ UNCHANGED <<fps_updates, paused_work, paused_twice>>
    /\ UNCHANGED <<cpc, running, paused, source_type, cap, handles, starts,
                   camera_errors, frames, open_failed, fault, set_running,
                   stop_requested, iters_after_stop, killed>>
    /\ UNCHANGED <<flip_frame, frame_flipped, frame_overlay, at_start, current_model,
                   tracker, ended>>
    /\ voiceIdle /\ sideIdle

\* self.frame_ready.emit(processed_frame, detections): the receiver lives in
\* the GUI thread, so the event is posted to that thread's queue
W_EmitFrame ==
    /\ wpc = "emit"
    /\ EmitFrameReady
    /\ pending' = Min(pending + 1, MaxFrames)
    /\ PausedWork("frame_ready")
    /\ frame_flipped' = "none"
    /\ frame_overlay' = "none"
    /\ wpc' = "loop"
    /\ UNCHANGED <<cpc, running, paused, source_type, cap, handles, starts,
                   camera_errors, fps_updates, open_failed, fault, set_running,
                   stop_requested, iters_after_stop, killed>>
    /\ UNCHANGED <<flip_frame, at_start, current_model, tracker, ended>>
    /\ frame_detections' = <<>>
    /\ UNCHANGED <<lst_writers, rec_writers, counts, ttsVars, recVars>>
    /\ UNCHANGED <<zoneFields, procRest>>
    /\ voiceIdle

\* history: a camera_error of the loop counts as its work
ExceptWork ==
    IF fault \in {"read", "process"} THEN PausedWork("camera_error")
    ELSE UNCHANGED <<paused_work, paused_twice>>

\* an except clause that reports and goes on with the loop
W_Except_Retry ==
    /\ wpc = "except"
    /\ EmitCameraError
    /\ ExceptWork
    /\ wpc' = "loop"
    /\ UNCHANGED <<cpc, running, paused, source_type, cap, handles, starts, frames,
                   fps_updates, open_failed, fault, set_running, stop_requested,
                   iters_after_stop, killed>>
    /\ UNCHANGED <<flip_frame, frame_flipped, frame_overlay, at_start, current_model,
                   tracker, ended>>
    /\ voiceIdle /\ sideIdle

\* except Exception: report and fall through to finally
W_Except ==
    /\ wpc = "except"
    /\ EmitCameraError
    /\ ExceptWork
    /\ wpc' = "finally"
    /\ UNCHANGED <<cpc, running, paused, source_type, cap, handles, starts, frames,
                   fps_updates, open_failed, fault, set_running, stop_requested,
                   iters_after_stop, killed>>
    /\ UNCHANGED <<flip_frame, frame_flipped, frame_overlay, at_start, current_model,
                   tracker, ended>>
    /\ voiceIdle /\ sideIdle

\* finally: release the capture if there is one, running = False; run() returns
W_Finally ==
    /\ wpc = "finally"
    /\ cap' = "none"
    /\ handles' = IF cap = "open" THEN handles - 1 ELSE handles
    /\ running' = FALSE
    /\ wpc' = "idle"
    /\ UNCHANGED <<cpc, paused, source_type, starts, camera_errors, frames,
                   fps_updates, open_failed, fault, set_running, stop_requested,
                   iters_after_stop, killed>>
    /\ UNCHANGED <<flip_frame, frame_flipped, frame_overlay, at_start, current_model,
                   tracker, ended, paused_work, paused_twice>>
    /\ voiceIdle /\ sideIdle

\* stop(): self.running = False, then wait(THREAD_WAIT_TIMEOUT)
StopBegin ==
    /\ cpc = "idle"
    /\ running' = FALSE
    /\ stop_requested' = (wpc # "idle")
    /\ iters_after_stop' = 0
    /\ cpc' = "stop_wait"
    /\ UNCHANGED <<wpc, paused, source_type, cap, handles, starts, camera_errors,
                   frames, fps_updates, open_failed, fault, set_running, killed>>
    /\ UNCHANGED <<flip_frame, frame_flipped, frame_overlay, at_start, current_model,
                   tracker, ended, paused_work, paused_twice>>
    /\ voiceIdle /\ sideIdle

\* a stop() that returns when its timed wait returns, finished thread or not
StopJoined_NoCheck ==
    /\ cpc = "stop_wait"
    /\ cpc' = "idle"
    /\ UNCHANGED <<wpc, running, paused, source_type, cap, handles, starts,
                   camera_errors, frames, fps_updates, open_failed, fault, set_running,
                   stop_requested, iters_after_stop, killed>>
    /\ UNCHANGED <<flip_frame, frame_flipped, frame_overlay, at_start, current_model,
                   tracker, ended, paused_work, paused_twice>>
    /\ voiceIdle /\ sideIdle

\* stop(): the thread has finished within the wait; isRunning() is False
StopJoined ==
    /\ cpc = "stop_wait"
    /\ wpc = "idle"
    /\ cpc' = "idle"
    /\ UNCHANGED <<wpc, running, paused, source_type, cap, handles, starts,
                   camera_errors, frames, fps_updates, open_failed, fault, set_running,
                   stop_requested, iters_after_stop, killed>>
    /\ UNCHANGED <<flip_frame, frame_flipped, frame_overlay, at_start, current_model,
                   tracker, ended, paused_work, paused_twice>>
    /\ voiceIdle /\ sideIdle

\* stop(): the wait timed out with the thread still running: terminate() ends
\* the thread where it stands (run()'s finally is not executed) and wait()
\* returns
StopTerminate ==
    /\ cpc = "stop_wait"
    /\ wpc # "idle"
    /\ wpc' = "idle"
    /\ cap' = "none"
    /\ killed' = TRUE
    /\ frame_flipped' = "none"
    /\ frame_overlay' = "none"
    /\ cpc' = "idle"
    /\ UNCHANGED <<running, paused, source_type, handles, starts, camera_errors,
                   frames, fps_updates, open_failed, fault, set_running,
                   stop_requested, iters_after_stop>>
    /\ UNCHANGED <<flip_frame, at_start, current_model, tracker, ended, paused_work,
                   paused_twice>>
    /\ frame_detections' = <<>>
    /\ UNCHANGED <<zoneFields, procRest>>
    /\ voiceIdle /\ sideRest

\* pause()
Pause ==
    /\ cpc = "idle"
    /\ paused' = TRUE
    /\ paused_work' = IF paused THEN paused_work ELSE {}
    /\ paused_twice' = (paused /\ paused_twice)
    /\ UNCHANGED <<wpc, cpc, running, source_type, cap, handles, starts,
                   camera_errors, frames, fps_updates, open_failed, fault, set_running,
                   stop_requested, iters_after_stop, killed>>
    /\ UNCHANGED <<flip_frame, frame_flipped, frame_overlay, at_start, current_model,
                   tracker, ended>>
    /\ voiceIdle /\ sideIdle

\* resume()
Resume ==
    /\ cpc = "idle"
    /\ paused' = FALSE
    /\ paused_work' = {}
    /\ paused_twice' = FALSE
    /\ UNCHANGED <<wpc, cpc, running, source_type, cap, handles, starts,
                   camera_errors, frames, fps_updates, open_failed, fault, set_running,
                   stop_requested, iters_after_stop, killed>>
    /\ UNCHANGED <<flip_frame, frame_flipped, frame_overlay, at_start, current_model,
                   tracker, ended>>
    /\ voiceIdle /\ sideIdle

\* set_source(source_type): the source and its mirror default
SetSource(st) ==
    /\ cpc = "idle"
    /\ source_type' = st
    /\ flip_frame' = (st = "webcam")
    /\ UNCHANGED <<wpc, cpc, running, paused, cap, handles, starts, camera_errors,
                   frames, fps_updates, open_failed, fault, set_running,
                   stop_requested, iters_after_stop, killed>>
    /\ UNCHANGED <<frame_flipped, frame_overlay, at_start, current_model, tracker,
                   ended, paused_work, paused_twice>>
    /\ voiceIdle /\ sideIdle

\* set_flip_mode(flip)
SetFlipMode(flip) ==
    /\ cpc = "idle"
    /\ flip_frame' = flip
    /\ UNCHANGED <<wpc, cpc, running, paused, source_type, cap, handles, starts,
                   camera_errors, frames, fps_updates, open_failed, fault, set_running,
                   stop_requested, iters_after_stop, killed>>
    /\ UNCHANGED <<frame_flipped, frame_overlay, at_start, current_model, tracker,
                   ended, paused_work, paused_twice>>
    /\ voiceIdle /\ sideIdle

\* YOLODetector.switch_model(model_name): True when the model is loaded
switch_model(model_name) == model_name \in models

\* a switch_model that stores the name before it looks for the model
SetModelSwitch_NameFirst(model_name) ==
    /\ cpc = "idle"
    /\ current_model_name' = model_name
    /\ IF switch_model(model_name)
       THEN current_model' = model_name /\ cpc' = "set_model"
       ELSE UNCHANGED <<current_model, cpc>>
    /\ switch_return' = <<switch_model(model_name)>>
    /\ UNCHANGED <<wpc, running, paused, source_type, cap, handles, starts,
                   camera_errors, frames, fps_updates, open_failed, fault, set_running,
                   stop_requested, iters_after_stop, killed>>
    /\ UNCHANGED <<flip_frame, frame_flipped, frame_overlay, at_start, tracker, ended,
                   paused_work, paused_twice>>
    /\ UNCHANGED <<zoneFields, frame_detections, models, conf_threshold, src_width,
                   scene, zone_call>>
    /\ voiceIdle /\ sideRest

\* set_model(model_name), first half: self.detector.switch_model(model_name);
\* a failed switch changes nothing and set_model returns
SetModelSwitch(model_name) ==
    /\ cpc = "idle"
    /\ IF switch_model(model_name)
       THEN /\ current_model_name' = model_name
            /\ current_model' = model_name
            /\ cpc' = "set_model"
       ELSE UNCHANGED <<current_model_name, current_model, cpc>>
    /\ switch_return' = <<switch_model(model_name)>>
    /\ UNCHANGED <<wpc, running, paused, source_type, cap, handles, starts,
                   camera_errors, frames, fps_updates, open_failed, fault, set_running,
                   stop_requested, iters_after_stop, killed>>
    /\ UNCHANGED <<flip_frame, frame_flipped, frame_overlay, at_start, tracker, ended,
                   paused_work, paused_twice>>
    /\ UNCHANGED <<zoneFields, frame_detections, models, conf_threshold, src_width,
                   scene, zone_call>>
    /\ voiceIdle /\ sideRest

\* set_model, second half: if self.tracker: self.tracker = ObjectTracker(...)
SetModelTracker ==
    /\ cpc = "set_model"
    /\ tracker' = IF tracker # "none" THEN current_model ELSE tracker
    /\ cpc' = "idle"
    /\ UNCHANGED <<wpc, running, paused, source_type, cap, handles, starts,
                   camera_errors, frames, fps_updates, open_failed, fault, set_running,
                   stop_requested, iters_after_stop, killed>>
    /\ UNCHANGED <<flip_frame, frame_flipped, frame_overlay, at_start, current_model,
                   ended, paused_work, paused_twice>>
    /\ voiceIdle /\ sideIdle

InitPipeline ==
    /\ wpc = "idle"
    /\ cpc = "idle"
    /\ running = FALSE
    /\ paused = FALSE
    /\ source_type = "webcam"
    /\ cap = "none"
    /\ handles = 0
    /\ starts = 0
    /\ camera_errors = 0
    /\ frames = 0
    /\ fps_updates = 0
    /\ open_failed = FALSE
    /\ fault = "none"
    /\ set_running = FALSE
    /\ stop_requested = FALSE
    /\ iters_after_stop = 0
    /\ killed = FALSE
    /\ flip_frame = TRUE
    /\ frame_flipped = "none"
    /\ frame_overlay = "none"
    /\ at_start = FALSE
    /\ tracker = "none"
    /\ ended = FALSE
    /\ paused_work = {}
    /\ paused_twice = FALSE

\* YOLODetector.__init__ / load_all_models: loaded are the names whose model
\* loads; current_model is models.get(current_model_name)
InitDetector(loaded) ==
    /\ models = loaded
    /\ current_model_name = DEFAULT_MODEL
    /\ current_model = IF DEFAULT_MODEL \in loaded THEN DEFAULT_MODEL ELSE "none"

\* VideoProcessorThread.__init__: no zone detector, the default threshold;
\* the source delivers frames of one width with nothing in them
InitProc ==
    /\ InitZone
    /\ conf_threshold = DEFAULT_CONF_THRESHOLD
    /\ frame_detections = <<>>
    /\ src_width = MaxWidth
    /\ scene = <<>>
    /\ switch_return = <<>>

\* the source delivers frames of another width
SetSourceWidth(width) ==
    /\ src_width' = width
    /\ UNCHANGED <<zoneFields, frame_detections, models, conf_threshold, scene,
                   zone_call, current_model_name, switch_return>>
    /\ UNCHANGED <<voiceVars, pipeVars, guiVars, ttsVars, recVars>>

\* other objects come into view
SetScene(boxes) ==
    /\ scene' = boxes
    /\ UNCHANGED <<zoneFields, frame_detections, models, conf_threshold, src_width,
                   zone_call, current_model_name, switch_return>>
    /\ UNCHANGED <<voiceVars, pipeVars, guiVars, ttsVars, recVars>>

\* set_conf_threshold(threshold), in hundredths
SetConfThreshold_Raw(threshold) ==
    /\ conf_threshold' = threshold
    /\ UNCHANGED <<zoneFields, frame_detections, models, src_width, scene, zone_call,
                   current_model_name, switch_return>>
    /\ UNCHANGED <<voiceVars, pipeVars, guiVars, ttsVars, recVars>>

\* set_conf_threshold(threshold), in hundredths:
\* max(MIN_CONF_THRESHOLD, min(threshold, MAX_CONF_THRESHOLD))
SetConfThreshold(threshold) ==
    /\ conf_threshold' = Max(MIN_CONF_THRESHOLD, Min(threshold, MAX_CONF_THRESHOLD))
    /\ UNCHANGED <<zoneFields, frame_detections, models, src_width, scene, zone_call,
                   current_model_name, switch_return>>
    /\ UNCHANGED <<voiceVars, pipeVars, guiVars, ttsVars, recVars>>

Worker ==
    \/ W_OpenOk
    \/ W_OpenFail
    \/ W_Init
    \/ W_InitRaise
    \/ W_SetRunning
    \/ W_LoopTest
    \/ W_PausedTest
    \/ W_ReadOk
    \/ W_ReadEnd
    \/ W_ReadRaise
    \/ W_Flip
    \/ W_Process
    \/ W_ProcessRaise
    \/ W_Overlay
    \/ W_UpdateFps
    \/ W_EmitFrame
    \/ W_Except
    \/ W_Finally

Control ==
    \/ Start
    \/ StopBegin
    \/ StopJoined
    \/ StopTerminate
    \/ Pause
    \/ Resume
    \/ \E st \in SourceTypes : SetSource(st)

NextPipeline == Worker \/ Control

(* ------------------------------ TTSEngine ------------------------------ *)
\* the texts passed to speak(); each is passed once, so that an utterance
\* tells which call it comes from
Messages ==
    {DetectionMessage("person", "gauche", TRUE, 1),
     DetectionMessage("chair", "droite", TRUE, 2),
     NO_DETECTION_MESSAGE}

\* what the speech worker leaves alone outside the queue
voiceRest ==
    UNCHANGED <<now, cooldown, last_spoken_time, spoken_objects, voice_checkbox,
                zone_checkbox, last_op, emitted, last_request, dropped, kinds>>

\* the messages waiting in a queue
Queued(q) == {q[i] : i \in 1..Len(q)}

\* speak(message, immediate), under the mutex
Speak(msg, immediate) ==
    /\ \A i \in 1..Len(speak_order) : speak_order[i] # msg
    /\ message_queue' = speak(IF immediate THEN <<>> ELSE message_queue, msg)
    /\ speak_order' = Append(speak_order, msg)
    /\ removed' = IF immediate THEN removed \cup Queued(message_queue) ELSE removed
    /\ UNCHANGED <<tts_pc, tts_message, engine, said, failed, ttsStop>>
    /\ voiceRest
    /\ UNCHANGED <<pipeVars, guiVars, recVars, procVars>>

\* clear_queue(), under the mutex
ClearQueue ==
    /\ message_queue' = <<>>
    /\ removed' = removed \cup Queued(message_queue)
    /\ UNCHANGED <<tts_pc, tts_message, engine, speak_order, said, failed, ttsStop>>
    /\ voiceRest
    /\ UNCHANGED <<pipeVars, guiVars, recVars, procVars>>

\* run(): while self.running; run() returns when the flag is down
TTS_LoopTest ==
    /\ tts_pc = "test"
    /\ tts_pc' = IF tts_running THEN "poll" ELSE "done"
    /\ UNCHANGED <<tts_message, engine, speak_order, said, removed, failed, ttsStop>>
    /\ UNCHANGED voiceVars
    /\ UNCHANGED <<pipeVars, guiVars, recVars, procVars>>

\* a worker that takes the newest message instead of the oldest
TTS_Poll_Last ==
    /\ tts_pc = "poll"
    /\ IF message_queue # <<>>
       THEN /\ tts_message' = message_queue[Len(message_queue)]
            /\ message_queue' = SubSeq(message_queue, 1, Len(message_queue) - 1)
            /\ tts_pc' = "say"
       ELSE /\ tts_pc' = "test"
            /\ UNCHANGED <<tts_message, message_queue>>
    /\ UNCHANGED <<engine, speak_order, said, removed, failed, ttsStop>>
    /\ voiceRest
    /\ UNCHANGED <<pipeVars, guiVars, recVars, procVars>>

\* run(): under the mutex, message = self.message_queue.pop(0) if there is one;
\* with an empty queue the iteration sleeps and tests the flag again
TTS_Poll ==
    /\ tts_pc = "poll"
    /\ IF message_queue # <<>>
       THEN /\ tts_message' = Head(message_queue)
            /\ message_queue' = Tail(message_queue)
            /\ tts_pc' = "say"
       ELSE /\ tts_pc' = "test"
            /\ UNCHANGED <<tts_message, message_queue>>
    /\ UNCHANGED <<engine, speak_order, said, removed, failed, ttsStop>>
    /\ voiceRest
    /\ UNCHANGED <<pipeVars, guiVars, recVars, procVars>>

\* run(): self.engine.say(message); runAndWait() starts speaking
TTS_SayBegin ==
    /\ tts_pc = "say"
    /\ engine' = tts_message
    /\ said' = Append(said, tts_message)
    /\ tts_pc' = "speaking"
    /\ UNCHANGED <<tts_message, speak_order, removed, failed, ttsStop>>
    /\ UNCHANGED voiceVars
    /\ UNCHANGED <<pipeVars, guiVars, recVars, procVars>>

\* run(): runAndWait() returns, the utterance is complete or was cut short by
\* engine.stop(); sleep, next iteration
TTS_SayEnd ==
    /\ tts_pc = "speaking"
    /\ engine' = "none"
    /\ tts_message' = "none"
    /\ tts_pc' = "test"
    /\ UNCHANGED <<speak_order, said, removed, failed, ttsStop>>
    /\ UNCHANGED voiceVars
    /\ UNCHANGED <<pipeVars, guiVars, recVars, procVars>>

\* a failure that is not caught: run() ends with the exception
TTS_SayFail_Exit ==
    /\ tts_pc \in {"say", "speaking"}
    /\ engine' = "none"
    /\ failed' = failed \cup {tts_message}
    /\ tts_message' = "none"
    /\ tts_pc' = "done"
    /\ UNCHANGED <<speak_order, said, removed, ttsStop>>
    /\ UNCHANGED voiceVars
    /\ UNCHANGED <<pipeVars, guiVars, recVars, procVars>>

\* run(): say() or runAndWait() raises: "TTS Error" is printed; sleep, next
\* iteration
TTS_SayFail ==
    /\ tts_pc \in {"say", "speaking"}
    /\ engine' = "none"
    /\ failed' = failed \cup {tts_message}
    /\ tts_message' = "none"
    /\ tts_pc' = "test"
    /\ UNCHANGED <<speak_order, said, removed, ttsStop>>
    /\ UNCHANGED voiceVars
    /\ UNCHANGED <<pipeVars, guiVars, recVars, procVars>>

\* what stop() leaves alone
stopRest ==
    /\ UNCHANGED <<speak_order, said, failed>>
    /\ voiceRest
    /\ UNCHANGED <<pipeVars, guiVars, recVars, procVars>>

\* stop(): self.running = False
TTS_StopBegin ==
    /\ tts_stop_pc = "idle"
    /\ tts_running' = FALSE
    /\ tts_stop_pc' = "clear"
    /\ UNCHANGED <<tts_pc, tts_message, engine, message_queue, removed, tts_stopped>>
    /\ stopRest

\* stop(): self.clear_queue()
TTS_StopClear ==
    /\ tts_stop_pc = "clear"
    /\ message_queue' = <<>>
    /\ removed' = removed \cup Queued(message_queue)
    /\ tts_stop_pc' = "engine"
    /\ UNCHANGED <<tts_pc, tts_message, engine, tts_running, tts_stopped>>
    /\ stopRest

\* stop(): self.engine.stop(), called from another thread than the one inside
\* runAndWait(): the utterance in progress is cut short, or the call does
\* nothing or raises (the exception is dropped)
TTS_StopEngine ==
    /\ tts_stop_pc = "engine"
    /\ engine' \in {engine, "none"}
    /\ tts_stop_pc' = "wait"
    /\ UNCHANGED <<tts_pc, tts_message, message_queue, removed, tts_running,
                   tts_stopped>>
    /\ stopRest

\* a stop() that returns after its timed wait, whatever the thread does
TTS_StopJoined_NoCheck ==
    /\ tts_stop_pc = "wait"
    /\ tts_stop_pc' = "idle"
    /\ tts_stopped' = TRUE
    /\ UNCHANGED <<tts_pc, tts_message, engine, message_queue, removed, tts_running>>
    /\ stopRest

\* stop(): wait(1000) found run() returned; isRunning() is False
TTS_StopJoined ==
    /\ tts_stop_pc = "wait"
    /\ tts_pc = "done"
    /\ tts_stop_pc' = "idle"
    /\ tts_stopped' = TRUE
    /\ UNCHANGED <<tts_pc, tts_message, engine, message_queue, removed, tts_running>>
    /\ stopRest

\* stop(): the wait timed out with the thread still running: terminate() ends
\* it where it stands, and wait() returns; an utterance the driver is speaking
\* is cut or goes on to its end
TTS_StopTerminate ==
    /\ tts_stop_pc = "wait"
    /\ tts_pc # "done"
    /\ tts_pc' = "done"
    /\ tts_message' = "none"
    /\ engine' \in {engine, "none"}
    /\ tts_stop_pc' = "idle"
    /\ tts_stopped' = TRUE
    /\ UNCHANGED <<message_queue, removed, tts_running>>
    /\ stopRest

\* start() on a thread that has finished: run() begins again
TTS_Start ==
    /\ tts_stop_pc = "idle"
    /\ tts_pc = "done"
    /\ tts_pc' = "test"
    /\ UNCHANGED <<tts_message, engine, speak_order, said, removed, failed, ttsStop>>
    /\ UNCHANGED voiceVars
    /\ UNCHANGED <<pipeVars, guiVars, recVars, procVars>>

\* TTSEngine() and start(): the worker is at the top of its loop
InitTTS ==
    /\ tts_pc = "test"
    /\ tts_message = "none"
    /\ engine = "none"
    /\ tts_running = TRUE
    /\ tts_stop_pc = "idle"
    /\ tts_stopped = FALSE
    /\ speak_order = <<>>
    /\ said = <<>>
    /\ removed = {}
    /\ failed = {}

\* the speech worker
TTSWorker ==
    \/ TTS_LoopTest
    \/ TTS_Poll
    \/ TTS_SayBegin
    \/ TTS_SayEnd
    \/ TTS_SayFail

\* the speech worker and the callers of speak()
NextTTS ==
    \/ \E msg \in Messages, immediate \in BOOLEAN : Speak(msg, immediate)
    \/ TTSWorker

\* ... and of clear_queue()
NextTTSLive ==
    \/ NextTTS
    \/ ClearQueue

\* ... and of stop() and start()
NextTTSStop ==
    \/ NextTTSLive
    \/ TTS_StopBegin
    \/ TTS_StopClear
    \/ TTS_StopEngine
    \/ TTS_StopJoined
    \/ TTS_StopTerminate
    \/ TTS_Start

(* ---------------------------- VideoRecorder ---------------------------- *)
\* the recorder's state as one value, so that a handler can chain its calls
Recorder ==
    [flag |-> is_recording_flag, writer |-> writer, path |-> output_path,
     count |-> frame_count, start |-> start_time, created |-> writers_created,
     ret |-> rec_return]

\* f"recording_{timestamp}.mp4": the timestamp has the clock's resolution
RecordingPath(t) == "recording_" \o ToString(t) \o ".mp4"

\* a start_recording without the test of is_recording_flag
start_recording_NoGuard(r, t, opened) ==
    IF opened
    THEN [r EXCEPT !.path = RecordingPath(t), !.writer = "open",
                   !.created = @ + 1, !.flag = TRUE, !.count = 0, !.start = t,
                   !.ret = <<"start_recording", RecordingPath(t)>>]
    ELSE [r EXCEPT !.path = RecordingPath(t), !.writer = "unopened",
                   !.ret = <<"start_recording", "RuntimeError">>]

\* a start_recording that raises the flag before it tests isOpened()
start_recording_FlagFirst(r, t, opened) ==
    IF r.flag THEN [r EXCEPT !.ret = <<"start_recording", r.path>>]
    ELSE IF opened
    THEN [r EXCEPT !.path = RecordingPath(t), !.writer = "open",
                   !.created = @ + 1, !.flag = TRUE, !.count = 0, !.start = t,
                   !.ret = <<"start_recording", RecordingPath(t)>>]
    ELSE [r EXCEPT !.path = RecordingPath(t), !.writer = "unopened",
                   !.flag = TRUE,
                   !.ret = <<"start_recording", "RuntimeError">>]

\* start_recording at time t; opened is writer.isOpened()
start_recording(r, t, opened) ==
    IF r.flag THEN [r EXCEPT !.ret = <<"start_recording", r.path>>]
    ELSE IF opened
    THEN [r EXCEPT !.path = RecordingPath(t), !.writer = "open",
                   !.created = @ + 1, !.flag = TRUE, !.count = 0, !.start = t,
                   !.ret = <<"start_recording", RecordingPath(t)>>]
    ELSE [r EXCEPT !.path = RecordingPath(t), !.writer = "unopened",
                   !.ret = <<"start_recording", "RuntimeError">>]

\* a write_frame that counts the frame before it writes it
write_frame_CountFirst(r, written) ==
    IF ~r.flag \/ r.writer = "none" THEN [r EXCEPT !.ret = <<"write_frame", FALSE>>]
    ELSE IF written
    THEN [r EXCEPT !.count = @ + 1, !.ret = <<"write_frame", TRUE>>]
    ELSE [r EXCEPT !.count = @ + 1, !.ret = <<"write_frame", FALSE>>]

\* write_frame; written is FALSE when writer.write raises
write_frame(r, written) ==
    IF ~r.flag \/ r.writer = "none" THEN [r EXCEPT !.ret = <<"write_frame", FALSE>>]
    ELSE IF written
    THEN [r EXCEPT !.count = @ + 1, !.ret = <<"write_frame", TRUE>>]
    ELSE [r EXCEPT !.ret = <<"write_frame", FALSE>>]

\* a stop_recording that reads frame_count after it has reset it
stop_recording_ResetFirst(r, t) ==
    IF ~r.flag THEN [r EXCEPT !.ret = <<"stop_recording", "none", 0, 0>>]
    ELSE [r EXCEPT
            !.writer = "none",
            !.created = IF r.writer = "open" THEN @ - 1 ELSE @,
            !.flag = FALSE,
            !.path = "none",
            !.count = 0,
            !.start = NoTime,
            !.ret = <<"stop_recording", r.path, 0,
                      IF r.start # NoTime THEN t - r.start ELSE 0>>]

\* stop_recording at time t: (output_path, frame_count, duration)
stop_recording(r, t) ==
    IF ~r.flag THEN [r EXCEPT !.ret = <<"stop_recording", "none", 0, 0>>]
    ELSE [r EXCEPT
            !.writer = "none",
            !.created = IF r.writer = "open" THEN @ - 1 ELSE @,
            !.flag = FALSE,
            !.path = "none",
            !.count = 0,
            !.start = NoTime,
            !.ret = <<"stop_recording", r.path, r.count,
                      IF r.start # NoTime THEN t - r.start ELSE 0>>]

\* the recorder's part of the next state
RecBecomes(r) ==
    /\ is_recording_flag' = r.flag
    /\ writer' = r.writer
    /\ output_path' = r.path
    /\ frame_count' = r.count
    /\ start_time' = r.start
    /\ writers_created' = r.created
    /\ rec_return' = r.ret

StartRecording(opened) ==
    /\ RecBecomes(start_recording(Recorder, now, opened))
    /\ UNCHANGED <<voiceVars, pipeVars, guiVars, ttsVars, procVars>>

WriteFrame(written) ==
    /\ frame_count < MaxFrames
    /\ RecBecomes(write_frame(Recorder, written))
    /\ UNCHANGED <<voiceVars, pipeVars, guiVars, ttsVars, procVars>>

StopRecording ==
    /\ RecBecomes(stop_recording(Recorder, now))
    /\ UNCHANGED <<voiceVars, pipeVars, guiVars, ttsVars, procVars>>

InitRecorder ==
    /\ is_recording_flag = FALSE
    /\ writer = "none"
    /\ output_path = "none"
    /\ frame_count = 0
    /\ start_time = NoTime
    /\ writers_created = 0
    /\ rec_return = <<"none">>

\* the recorder driven through its public methods
NextRecorder ==
    \/ Tick
    \/ \E opened \in BOOLEAN : StartRecording(opened)
    \/ \E written \in BOOLEAN : WriteFrame(written)
    \/ StopRecording

\* the worker with the mirror checkbox toggled while it runs
NextConfig ==
    \/ Worker
    \/ Start
    \/ \E flip \in BOOLEAN : SetFlipMode(flip)

\* the worker with the model changed while it runs
NextModel ==
    \/ Worker
    \/ Start
    \/ \E model_name \in SwitchNames : SetModelSwitch(model_name)
    \/ SetModelTracker

\* the thresholds the slider or another caller passes, in hundredths
Thresholds == {0 - 5, 0, 1, 2, 25, 99, 100, 101, 250}

\* the worker with the confidence threshold changed while it runs
NextThreshold ==
    \/ Worker
    \/ Start
    \/ \E threshold \in Thresholds : SetConfThreshold(threshold)

\* the frame widths and the scenes of the worker's runs: one box at most
PipeWidths == {MaxWidth \div 2, MaxWidth}
Scenes == {<<>>} \cup {<<(<<x, 0, x, 0>>)>> : x \in {1, 2, MaxWidth}}

\* the worker while the frames' width and content change
NextZonePipe ==
    \/ Worker
    \/ Start
    \/ \E width \in PipeWidths : SetSourceWidth(width)
    \/ \E boxes \in Scenes : SetScene(boxes)

\* the worker with the model changed while it runs, objects being in view
NextProvider ==
    \/ NextModel
    \/ \E boxes \in Scenes : SetScene(boxes)

(* ------------------- NavigationAssistantGUI: delivery ------------------ *)
\* a slot that runs in the thread that emits the signal
SlotThread_Direct(emitter, receiver) == emitter

\* the thread that runs a slot connected by connect() with the default
\* connection type, the signal being emitted in another thread than the one
\* the receiver lives in: the receiver's, through its event queue
SlotThread(emitter, receiver) == receiver

\* update_frame(frame, detections), the slot of frame_ready: the oldest posted
\* event is delivered; display, handle_voice_notifications, and write_frame
\* when a recording is active (written: writer.write did not raise)
UpdateFrame(detections, written) ==
    /\ pending > 0
    /\ pending' = pending - 1
    /\ HandleVoiceNotifications(detections)
    /\ lst_writers' = IF voice_checkbox
                      THEN lst_writers \cup {SlotThread("capture", "gui")}
                      ELSE lst_writers
    /\ IF is_recording_flag
       THEN /\ frame_count < MaxFrames
            /\ RecBecomes(write_frame(Recorder, written))
            /\ rec_writers' = rec_writers \cup {SlotThread("capture", "gui")}
       ELSE UNCHANGED <<recVars, rec_writers>>
    /\ UNCHANGED <<counts, ttsVars, procVars>>

\* toggle_recording, the slot of the record button's clicked signal, emitted
\* in the GUI thread: start_recording (a RuntimeError is shown in a message
\* box) or stop_recording
ToggleRecording(opened) ==
    /\ RecBecomes(IF ~is_recording_flag
                  THEN start_recording(Recorder, now, opened)
                  ELSE stop_recording(Recorder, now))
    /\ rec_writers' = rec_writers \cup {"gui"}
    /\ UNCHANGED <<pending, lst_writers, counts>>
    /\ UNCHANGED <<voiceVars, pipeVars, ttsVars, procVars>>

\* history: zone_objects[key]["count"] for every key, 0 for a key the frame
\* does not hold
FrameCounts(detections) ==
    [id \in ObjectIds |->
        Cardinality({i \in 1..Len(detections) : DetKey(detections[i]) = id})]

\* handle_voice_notifications(detections) called frame after frame, the group
\* counts of the frames being remembered
HandleFrame(detections) ==
    /\ HandleVoiceNotifications(detections)
    /\ counts' = IF voice_checkbox THEN <<counts[2], FrameCounts(detections)>>
                 ELSE counts
    /\ UNCHANGED <<pending, lst_writers, rec_writers>>
    /\ UNCHANGED <<ttsVars, recVars, procVars>>

InitGui ==
    /\ pending = 0
    /\ lst_writers = {}
    /\ rec_writers = {}
    /\ counts = <<FrameCounts(<<>>), FrameCounts(<<>>)>>

\* the detection lists of the frames the worker hands over: nothing, or one
\* person on the left
WorkerFrames == {<<>>, <<[class |-> "person", zone |-> "gauche"]>>}

\* the capture worker, the GUI thread's handlers and the speech worker
NextGui ==
    \/ Worker
    \/ Start
    \/ \E detections \in WorkerFrames, written \in BOOLEAN :
          UpdateFrame(detections, written)
    \/ \E opened \in BOOLEAN : ToggleRecording(opened)
    \/ TTSTake

InitRest == InitVoice /\ InitPipeline /\ InitGui /\ InitTTS /\ InitRecorder /\ InitProc

Init == InitRest /\ InitDetector(LoadedModels)

\* the manager driven through its public methods
NextManager ==
    \/ Tick
    \/ TTSTake
    \/ \E det \in Detections, iz \in BOOLEAN, n \in 1..MaxCount :
          AnnounceDetection(det.class, det.zone, iz, n)
    \/ AnnounceNoDetection
    \/ \E S \in SUBSET ObjectIds : CleanupOldObjects(S)
    \/ Reset

SpecManager == Init /\ [][NextManager]_vars

\* the manager driven by the GUI, one call per delivered frame
NextFrames ==
    \/ Tick
    \/ TTSTake
    \/ \E detections \in Frames : HandleVoiceNotifications(detections) /\ sideIdle
    \/ ToggleVoice
    \/ ToggleZone

SpecFrames == Init /\ [][NextFrames]_vars

\* the frames that hold one group, of any count, and the frame that holds none
CountFrames == {detections \in Frames : Cardinality(CurrentObjects(detections)) <= 1}

\* the handler followed frame by frame
NextCounts ==
    \/ Tick
    \/ TTSTake
    \/ \E detections \in CountFrames : HandleFrame(detections)
    \/ ToggleZone

SpecCounts == Init /\ [][NextCounts]_vars

\* the capture worker and the control thread
SpecPipeline == Init /\ [][NextPipeline]_vars

\* frames delivered from the capture worker to the GUI thread
SpecGui == Init /\ [][NextGui]_vars

\* the speech worker and its callers
SpecTTS == Init /\ [][NextTTS]_vars

\* the speech worker with stop() and start()
SpecTTSStop == Init /\ [][NextTTSStop]_vars

\* the speech worker, which goes on running while it has something to do
SpecTTSLive == Init /\ [][NextTTSLive]_vars /\ WF_vars(TTSWorker)

\* the recorder alone
SpecRecorder == Init /\ [][NextRecorder]_vars

\* the capture worker and toggle_mirror
SpecConfig == Init /\ [][NextConfig]_vars

\* the capture worker and change_model
SpecModel == Init /\ [][NextModel]_vars

\* the capture worker and change_conf_threshold
SpecThreshold == Init /\ [][NextThreshold]_vars

\* the zone detector alone
SpecZone == Init /\ [][NextZone]_vars

\* the zone detector constructed with any number of divisions
SpecDivisions == Init /\ [][NextDivisions]_vars

\* the capture worker and its zone detector
SpecZonePipe == Init /\ [][NextZonePipe]_vars

\* the detector with any of its models loaded or not, the capture worker and
\* change_model
InitProvider == InitRest /\ \E loaded \in SUBSET LoadedModels : InitDetector(loaded)

SpecProvider == InitProvider /\ [][NextProvider]_vars

(* ======================= voice notification claims ===================== *)
EmittedIds == {e[1] : e \in emitted}
\* the last step was handle_voice_notifications, with voice enabled
HandledFrame == last_op[1] = "handle_voice_notifications" /\ voice_checkbox

\* C1: announce_detection for a key recorded at time t (nothing having removed
\* it): called before t + cooldown it enqueues nothing and leaves the timestamp
\* at t; called at or after t + cooldown it enqueues exactly one speech request
\* and records the time of the call.
C1_CooldownContract ==
    [][\A det \in Detections, iz \in BOOLEAN, n \in 1..MaxCount :
         LET id == DetKey(det)
         IN (AnnounceDetection(det.class, det.zone, iz, n) /\ id \in DOMAIN last_spoken_time)
            => LET t == last_spoken_time[id]
               IN /\ now < t + cooldown
                       => message_queue' = message_queue /\ last_spoken_time'[id] = t
                  /\ now >= t + cooldown
                       => /\ Len(message_queue') = Len(message_queue) + 1
                          /\ last_spoken_time'[id] = now]_vars

\* C1 witness: a key recorded earlier has just been announced again by a direct
\* call made once the cooldown had elapsed.
C1_Witness ==
    \E id \in ObjectIds :
        /\ last_op = <<"announce_detection", id>>
        /\ emitted = {<<id, "repeat">>}
        /\ last_spoken_time[id] = now
        /\ Len(message_queue) = 1

\* C2 as stated: whatever the frames, two speech requests for the same
\* (class, zone) key are at least the cooldown apart.
C2_Original ==
    [][\A id \in ObjectIds :
         (id \in EmittedIds' /\ last_request[id] # NoTime)
             => now - last_request[id] >= cooldown]_vars

\* C2 amended: two successive speech requests for the same key are at least the
\* cooldown apart unless, between them, a non-empty frame without that key was
\* processed and cleanup_old_objects dropped the key.
C2_Amended ==
    [][\A id \in ObjectIds :
         (id \in EmittedIds' /\ last_request[id] # NoTime /\ id \notin dropped)
             => now - last_request[id] >= cooldown]_vars

\* C2 witness: a frame has re-announced a key that stayed recorded since its
\* previous request.
C2_Witness ==
    /\ HandledFrame
    /\ \E id \in ObjectIds : <<id, "repeat">> \in emitted /\ last_request[id] >= cooldown

\* C3 as stated: when an empty frame fires the "no objects" announcement, no
\* (class, zone) key keeps a recorded timestamp.
C3_Original ==
    (HandledFrame /\ NO_DETECTION_ID \in EmittedIds)
        => DOMAIN last_spoken_time \subseteq {NO_DETECTION_ID}

\* C4 as stated: after an empty frame followed by a non-empty frame, no
\* no-detection timestamp remains recorded.
C4_Original ==
    kinds = <<"empty", "nonempty">> => NO_DETECTION_ID \notin DOMAIN last_spoken_time

\* C4 amended: after an empty frame followed by a non-empty frame, the
\* no-detection timestamp is still recorded, unchanged: it is the time of the
\* latest "no objects" request.
C4_Amended ==
    kinds = <<"empty", "nonempty">>
        => /\ NO_DETECTION_ID \in DOMAIN last_spoken_time
           /\ last_spoken_time[NO_DETECTION_ID] = last_request[NO_DETECTION_ID]

\* C4 witness: a non-empty frame that announced something has just been
\* processed after an empty one.
C4_Witness ==
    HandledFrame /\ kinds = <<"empty", "nonempty">> /\ emitted # {}

\* C5: an empty frame enqueues "no objects" exactly when no no-detection
\* timestamp is recorded or more than the cooldown has passed since it (a
\* timestamp exactly one cooldown old still counts as within the window); a
\* request records the time of the call, and two "no objects" requests are
\* always more than the cooldown apart.
C5_NoDetectionContract ==
    [][(HandleVoiceNotifications(<<>>) /\ voice_checkbox)
         => LET recorded == NO_DETECTION_ID \in DOMAIN last_spoken_time
                due == ~recorded \/ now - last_spoken_time[NO_DETECTION_ID] > cooldown
            IN /\ due => /\ message_queue' = Append(message_queue, NO_DETECTION_MESSAGE)
                         /\ last_spoken_time'[NO_DETECTION_ID] = now
                         /\ last_request[NO_DETECTION_ID] # NoTime
                                => now - last_request[NO_DETECTION_ID] > cooldown
               /\ ~due => /\ message_queue' = message_queue
                          /\ last_spoken_time' = last_spoken_time]_vars

\* C5 witness: in a run of empty frames the announcement has fired a second
\* time.
C5_Witness ==
    /\ HandledFrame
    /\ kinds = <<"empty", "empty">>
    /\ emitted = {<<NO_DETECTION_ID, "repeat">>}

\* C6: a non-empty frame leaves recorded, besides "no_detection", only keys of
\* that frame, and a key that had been dropped is announced when it is back.
C6_OnlyCurrentKeys ==
    [][(HandledFrame' /\ last_op'[2] # {})
         => /\ DOMAIN last_spoken_time' \ {NO_DETECTION_ID} = last_op'[2]
            /\ \A id \in last_op'[2] : id \in dropped => id \in EmittedIds']_vars

\* C6 witness: a key dropped by an earlier frame has just been announced on its
\* return.
C6_Witness ==
    /\ HandledFrame
    /\ kinds[2] = "nonempty"
    /\ \E id \in ObjectIds : <<id, "return">> \in emitted

\* the text of a request for n objects of a class in a zone
RequestText(class_name, zone, n, with_zone) ==
    (IF n = 1 THEN class_name ELSE ToString(n) \o " " \o class_name)
       \o (IF with_zone THEN " à " \o zone ELSE "")

\* how many detections of the list have this class and this zone
Occurrences(detections, det) ==
    Cardinality({i \in DOMAIN detections :
                    detections[i].class = det.class /\ detections[i].zone = det.zone})

\* C27: a non-empty frame handled with voice enabled emits at most one request
\* per (class, zone) key of the frame; the text of a key's request is the
\* class name for one object and "<count> <class>" for more, followed by the
\* zone suffix iff zone announcements are enabled; and a key's timestamp
\* becomes the current time when its request is emitted and stays what it was
\* when none is.  (A handler step for a frame's keys that leaves the queue the
\* handler leaves for that frame is taken as the handler's step for it; a
\* step that requests nothing needs no frame to be told.)
C27_Grouping ==
    [][(voice_checkbox /\ last_op'[1] = "handle_voice_notifications" /\ last_op'[2] # {})
         => IF message_queue' = <<>>
            THEN \A id \in last_op'[2] :
                    /\ id \in DOMAIN last_spoken_time
                    /\ last_spoken_time'[id] = last_spoken_time[id]
                    /\ now < last_spoken_time[id] + cooldown
            ELSE \A detections \in Frames :
                    (/\ last_op'[2] = CurrentObjects(detections)
                     /\ message_queue' = handle_voice_notifications(Manager, now, detections).q)
                       => LET dets == {detections[i] : i \in DOMAIN detections}
                              Text(det) ==
                                  RequestText(det.class, det.zone,
                                              Occurrences(detections, det), zone_checkbox)
                              requests == {message_queue'[i] : i \in DOMAIN message_queue'}
                          IN  /\ Len(message_queue') <= Cardinality(dets)
                              /\ Cardinality(requests) = Len(message_queue')
                              /\ requests \subseteq {Text(det) : det \in dets}
                              /\ \A det \in dets :
                                    IF Text(det) \in requests
                                    THEN last_spoken_time'[DetKey(det)] = now
                                    ELSE /\ DetKey(det) \in DOMAIN last_spoken_time
                                         /\ last_spoken_time'[DetKey(det)]
                                               = last_spoken_time[DetKey(det)]
                                         /\ now < last_spoken_time[DetKey(det)] + cooldown]_vars

\* C27 witness: two persons on the left have been announced together, zone
\* announcements being disabled.
C27_Witness ==
    /\ HandledFrame
    /\ ~zone_checkbox
    /\ last_op[2] = {ObjectZoneId("person", "gauche")}
    /\ message_queue = <<"2 person">>

(* ============================ pipeline claims ========================== *)
\* C7: when opening the source fails, the run emits exactly one camera_error,
\* no frame_ready and no fps_update, never executes running = True, and only
\* has the way out through finally left.
C7_OpenFailure ==
    open_failed
        => /\ camera_errors = 1
           /\ frames = 0
           /\ fps_updates = 0
           /\ ~set_running
           /\ wpc \in {"finally", "idle"}

\* C7 witness: a run whose open failed has returned by itself.
C7_Witness ==
    open_failed /\ wpc = "idle" /\ cpc = "idle" /\ ~killed /\ ~running

\* C8 as stated: once stop() has set the flag, the worker begins at most one
\* further loop iteration.
C8_Original == iters_after_stop <= 1

\* C9 as stated: when no run is in progress and stop() has returned, every
\* capture handle that was opened has been released and running is False.
C9_Original ==
    (wpc = "idle" /\ cpc = "idle") => (handles = 0 /\ ~running)

\* C10: after an exception while reading or processing a frame the worker is
\* in its except clause or past it: no frame is read or emitted any more,
\* camera_error is emitted once - not yet in the except clause, exactly once
\* from finally on unless terminate() struck before - and the source is not
\* opened again in this run.
C10_FailStop ==
    fault \in {"read", "process"}
        => /\ wpc \in {"except", "finally", "idle"}
           /\ wpc = "except" => camera_errors = 0
           /\ (wpc \in {"finally", "idle"} /\ ~killed) => camera_errors = 1
           /\ camera_errors <= 1

\* C10 witness: a run that had emitted frames raised on a read, reported it
\* and returned by itself.
C10_Witness ==
    /\ fault = "read"
    /\ wpc = "idle"
    /\ ~killed
    /\ camera_errors = 1
    /\ frames > 0
    /\ handles = 0

\* the positions of run() inside one iteration, past the test of the flag
InFrame == {"read", "flip", "process", "overlay", "fps", "emit"}

\* C11 as stated: from pause() until resume() the loop reads no frame, computes
\* no detection and emits no frame_ready, fps_update or camera_error.
C11_Original == paused => paused_work = {}

\* C11 amended: after pause() only the iteration that had already passed the
\* test of the flag runs to its end, so the loop reads, detects and emits each
\* event at most once more; an iteration that tests the flag while it is set
\* is an idle wait, and one that tests it after resume() reads a frame again.
C11_Amended ==
    [][/\ ~paused_twice'
       /\ (wpc = "paused_test" /\ wpc' # wpc)
             => wpc' \in (IF paused THEN {"loop", "idle"} ELSE {"read", "idle"})
       /\ (paused /\ paused' /\ wpc \notin InFrame) => wpc' \notin InFrame]_vars

\* C11 witness: paused with a frame in flight, the worker has read, detected
\* and emitted that one frame and is back at the test of the flag.
C11_Witness ==
    /\ paused
    /\ {"read", "detect", "frame_ready"} \subseteq paused_work
    /\ wpc = "paused_test"
    /\ cpc = "idle"

\* C12: a failed read in the loop: with source_type "file" the capture is set
\* back to frame 0, stays open and the worker is at the top of the loop again,
\* running untouched; with a live source the worker goes to finally, and from
\* there only to idle: it reads no more in this run.
C12_EndOfStream ==
    [][/\ W_ReadEnd
            => IF source_type = "file"
               THEN /\ wpc' = "loop"
                    /\ at_start'
                    /\ cap' = "open"
                    /\ running' = running
                    /\ ~ended'
               ELSE /\ wpc' = "finally"
                    /\ ended'
       /\ (ended /\ ended') => wpc' \in {"finally", "idle"}
       /\ (ended /\ wpc = "finally" /\ wpc' = "idle" /\ ~killed')
            => (cap' = "none" /\ ~running')]_vars

\* C12 witness: a file that had delivered frames has been rewound and the
\* worker is at the top of the loop.
C12_Witness ==
    /\ source_type = "file"
    /\ wpc = "loop"
    /\ at_start
    /\ frames > 0
    /\ ~ended

\* C13 as stated: at most one capture handle is open at any time.
C13_Original == handles <= 1

\* C14 as stated: the mirror flag read to flip a frame and the mirror flag
\* read for the status overlay of that same frame agree.
C14_Original ==
    wpc \in {"fps", "emit"} => frame_flipped = frame_overlay

\* C15 as stated: whenever the worker tracks a frame, the tracker it uses is
\* bound to the detector's current model.
C15_Original ==
    [][(wpc = "process" /\ wpc' = "overlay" /\ tracker # "none")
         => tracker = current_model]_vars

(* ============================ delivery claims ========================= *)
\* C16 as stated: no backlog is kept between the worker and update_frame: at
\* most the one frame handed over is waiting, a frame emitted while one is
\* waiting being dropped.
C16_Original == pending <= 1

\* C17: all the code that mutates last_spoken_time, and all the code that
\* mutates the recorder, runs in one thread, the GUI thread.
C17_OneThread ==
    /\ lst_writers \subseteq {"gui"}
    /\ rec_writers \subseteq {"gui"}

\* C17 witness: a delivered frame has been announced and written to a
\* recording started from the record button.
C17_Witness ==
    /\ lst_writers = {"gui"}
    /\ rec_writers = {"gui"}
    /\ DOMAIN last_spoken_time # {}
    /\ is_recording_flag
    /\ frame_count > 0

(* ============================= speech claims ========================== *)
\* s is t with some elements left out
RECURSIVE IsSubseq(_, _)
IsSubseq(s, t) ==
    IF s = <<>> THEN TRUE
    ELSE IF t = <<>> THEN FALSE
    ELSE IF Head(s) = Head(t) THEN IsSubseq(Tail(s), Tail(t))
    ELSE IsSubseq(s, Tail(t))

\* C18: the utterances begin in the order of the speak() calls, none twice
\* (messages are taken from the queue oldest first), and an utterance begins
\* only when the engine is speaking nothing.
C18_SerialFifo ==
    [][/\ IsSubseq(said', speak_order')
       /\ (engine' # engine /\ engine' # "none") => engine = "none"
       /\ (tts_pc = "poll" /\ tts_pc' = "say")
            => (tts_message' = Head(message_queue) /\ engine = "none")]_vars

\* C18 witness: the third message is being spoken after the first two, all
\* three in call order.
C18_Witness ==
    /\ Len(said) = 3
    /\ said = speak_order
    /\ engine = said[3]
    /\ tts_pc = "speaking"

\* C19 as stated: after speak(message, immediate=True) no earlier utterance is
\* in progress and none is about to start: the urgent message is the only one
\* queued and the next one spoken.
C19_Original ==
    [][\A msg \in Messages :
         Speak(msg, TRUE)
            => /\ message_queue' = <<msg>>
               /\ engine' = "none"
               /\ tts_message' = "none"]_vars

(* ============================ recorder claims ========================== *)
\* C20: at most one writer is open at any time, and start_recording called
\* while a session is active returns the session's output path and leaves the
\* flag, the writer, the path, frame_count and start_time as they are.
C20_OneSession ==
    [][/\ writers_created' <= 1
       /\ \A opened \in BOOLEAN :
             (StartRecording(opened) /\ is_recording_flag)
                => /\ rec_return' = <<"start_recording", output_path>>
                   /\ UNCHANGED <<is_recording_flag, writer, output_path, frame_count,
                                  start_time, writers_created>>]_vars

\* C20 witness: start_recording has been called on a session that had frames
\* written, at a later time than the session began.
C20_Witness ==
    /\ is_recording_flag
    /\ rec_return = <<"start_recording", output_path>>
    /\ frame_count > 0
    /\ start_time < now
    /\ writers_created = 1

\* the recorder's fields (history variables left out)
recFields == <<is_recording_flag, writer, output_path, frame_count, start_time>>

\* C21: write_frame returns a boolean in every case (it never raises): False
\* with no field changed when no session is active, False with frame_count
\* unchanged when the writer fails, True with frame_count one higher when
\* the frame is written.
C21_WriteFrame ==
    [][\A written \in BOOLEAN :
          WriteFrame(written)
             => /\ rec_return' \in {<<"write_frame", b>> : b \in BOOLEAN}
                /\ ~is_recording_flag
                      => /\ rec_return' = <<"write_frame", FALSE>>
                         /\ UNCHANGED <<recFields, writers_created>>
                /\ (is_recording_flag /\ ~written)
                      => /\ rec_return' = <<"write_frame", FALSE>>
                         /\ frame_count' = frame_count
                /\ (is_recording_flag /\ written)
                      => /\ rec_return' = <<"write_frame", TRUE>>
                         /\ frame_count' = frame_count + 1]_vars

\* C21 witness: in a session with a frame written, a write has failed.
C21_Witness ==
    /\ is_recording_flag
    /\ frame_count > 0
    /\ rec_return = <<"write_frame", FALSE>>

\* C22: stop_recording on an active session returns the session's path and
\* frame_count, releases the writer and leaves the recorder inactive with
\* frame_count 0 and no path; while inactive it returns (None, 0, 0.0) and
\* changes nothing. Within a session frame_count starts at 0 and changes only
\* by one, on a write_frame that returned True.
C22_StopRecording ==
    [][/\ (StopRecording /\ is_recording_flag)
          => /\ rec_return'[1] = "stop_recording"
             /\ rec_return'[2] = output_path
             /\ rec_return'[3] = frame_count
             /\ writer' = "none"
             /\ writers_created' = 0
             /\ ~is_recording_flag'
             /\ frame_count' = 0
             /\ output_path' = "none"
       /\ (StopRecording /\ ~is_recording_flag)
          => /\ rec_return' = <<"stop_recording", "none", 0, 0>>
             /\ UNCHANGED <<recFields, writers_created>>
       /\ (~is_recording_flag /\ is_recording_flag') => frame_count' = 0
       /\ (is_recording_flag /\ is_recording_flag' /\ frame_count' # frame_count)
          => /\ frame_count' = frame_count + 1
             /\ rec_return' = <<"write_frame", TRUE>>
             /\ WriteFrame(TRUE)]_vars

\* C22 witness: a session with frames written has been stopped.
C22_Witness ==
    /\ ~is_recording_flag
    /\ rec_return[1] = "stop_recording"
    /\ rec_return[2] # "none"
    /\ rec_return[3] = MaxFrames

\* C23: when the writer cannot be opened start_recording raises and no
\* session begins; while no session is active write_frame returns False and
\* start_recording with a writer that opens begins a session with a new path
\* and frame_count 0.
C23_OpenFault ==
    [][/\ (StartRecording(FALSE) /\ ~is_recording_flag)
          => /\ rec_return' = <<"start_recording", "RuntimeError">>
             /\ ~is_recording_flag'
             /\ writers_created' = writers_created
       /\ ~is_recording_flag'
          => /\ \A written \in BOOLEAN :
                   LET r == write_frame(Recorder, written)'
                   IN  r.ret = <<"write_frame", FALSE>> /\ r.count = frame_count'
             /\ LET r == start_recording(Recorder, now, TRUE)'
                 IN  /\ r.flag /\ r.writer = "open" /\ r.count = 0
                     /\ r.path = RecordingPath(now')
                     /\ r.ret = <<"start_recording", r.path>>]_vars

\* C23 witness: after a start_recording whose writer did not open,
\* write_frame has been called.
C23_Witness ==
    /\ ~is_recording_flag
    /\ writer = "unopened"
    /\ rec_return = <<"write_frame", FALSE>>

(* ========================= zone detector claims ======================== *)
\* C24: for every frame width W >= 0 the boundaries satisfy
\* 0 <= left_boundary <= right_boundary <= W, and get_zone returns one of the
\* three zones for every argument.
C24_Boundaries ==
    frame_width # NoWidth
       => /\ 0 <= left_boundary
          /\ left_boundary <= right_boundary
          /\ right_boundary <= frame_width
          /\ \A bbox \in BBoxArgs, center_x \in CenterArgs :
                get_zone(ZoneDetector, bbox, center_x) \in {"gauche", "milieu", "droite"}
          /\ zone_call # <<>> => zone_call[1].zone \in {"gauche", "milieu", "droite"}

\* C24 witness: a frame one pixel wide, both boundaries 0, and an object left
\* of it.
C24_Witness ==
    /\ frame_width = 1
    /\ zone_call # <<>>
    /\ zone_call[1].zone = "gauche"

\* floor(n / 2)
FloorHalf(n) == CHOOSE k \in (0 - 2) .. 801 : 2 * k <= n /\ n < 2 * k + 2

\* the reference classifier: the centre taken as given, or from the box
RefZone(left, right, bbox, center_x) ==
    IF center_x # NoArg
    THEN IF center_x[1] < left THEN "gauche"
         ELSE IF center_x[1] > right THEN "droite" ELSE "milieu"
    ELSE IF bbox # NoArg
    THEN IF FloorHalf(bbox[1] + bbox[3]) < left THEN "gauche"
         ELSE IF FloorHalf(bbox[1] + bbox[3]) > right THEN "droite" ELSE "milieu"
    ELSE "milieu"

\* C25: get_zone returns what the reference classifier returns: Left below
\* the left boundary, Right above the right boundary, Center otherwise and
\* when nothing is given; width 900 has the boundaries (300, 600), and 150,
\* 450, 800 are Left, Center, Right.
C25_Reference ==
    /\ zone_call # <<>>
          => zone_call[1].zone = RefZone(left_boundary, right_boundary,
                                         zone_call[1].bbox, zone_call[1].center_x)
    /\ frame_width = 900
          => /\ left_boundary = 300 /\ right_boundary = 600
             /\ get_zone(ZoneDetector, NoArg, <<150>>) = "gauche"
             /\ get_zone(ZoneDetector, NoArg, <<450>>) = "milieu"
             /\ get_zone(ZoneDetector, NoArg, <<800>>) = "droite"
    /\ frame_width # NoWidth
          => /\ get_zone(ZoneDetector, NoArg, <<left_boundary>>) = "milieu"
             /\ get_zone(ZoneDetector, NoArg, <<right_boundary>>) = "milieu"
             /\ get_zone(ZoneDetector, NoArg, NoArg) = "milieu"

\* C25 witness: only a box is given and its centre is rounded down onto
\* the right boundary.
C25_Witness ==
    /\ zone_call # <<>>
    /\ zone_call[1].center_x = NoArg
    /\ zone_call[1].bbox # NoArg
    /\ zone_call[1].bbox[1] = right_boundary
    /\ zone_call[1].bbox[3] = right_boundary + 1
    /\ zone_call[1].zone = "milieu"
    /\ frame_width > 0

\* C26: a get_zone call changes no field of the detector, and the same call
\* in the state it leaves returns the same zone; the fields change only in
\* the constructor, in update_boundaries, and in a draw_zones for a frame
\* whose width is not the cached one, which sets them as update_boundaries
\* does; a draw_zones for a frame of the cached width changes nothing.
C26_NoMutation ==
    [][/\ zone_call' # <<>>
          => /\ UNCHANGED zoneFields
             /\ get_zone(ZoneDetector', zone_call'[1].bbox, zone_call'[1].center_x)
                   = zone_call'[1].zone
       /\ zoneFields' # zoneFields
          => \E width \in ZoneWidths :
                \/ ZD_New(width)
                \/ UpdateBoundaries(width)
                \/ DrawZones(width) /\ width # frame_width
       /\ \A width \in ZoneWidths :
             DrawZones(width)
                => IF width # frame_width
                   THEN ZoneDetector' = update_boundaries(ZoneDetector, width)
                   ELSE UNCHANGED zoneFields]_vars

\* C26 witness: get_zone has been called for a box on a detector whose
\* cached width is not the width of the frames the source delivers.
C26_Witness ==
    /\ zone_call # <<>>
    /\ zone_call[1].bbox # NoArg
    /\ zone_call[1].zone = "droite"
    /\ frame_width # NoWidth
    /\ frame_width # src_width

\* C30: the zone of every object tracked in a frame is the one the reference
\* classifier gives for the boundaries W \div 3 and 2W \div 3 of that frame's
\* width W, which are the detector's boundaries once the frame is processed,
\* as they are those of the capture's width after run() has created the
\* detector; every detection of a frame carries one of the three zones.
C30_FrameBoundaries ==
    [][/\ (wpc = "init" /\ wpc' = "set_running")
          => /\ frame_width' = src_width
             /\ left_boundary' = src_width \div 3
             /\ right_boundary' = (2 * src_width) \div 3
       /\ (wpc = "process" /\ wpc' = "overlay")
          => /\ frame_width' = src_width
             /\ left_boundary' = src_width \div 3
             /\ right_boundary' = (2 * src_width) \div 3
             /\ Len(frame_detections') = Len(scene)
             /\ \A i \in DOMAIN frame_detections' :
                   /\ frame_detections'[i].zone \in {"gauche", "milieu", "droite"}
                   /\ frame_detections'[i].zone
                         = RefZone(src_width \div 3, (2 * src_width) \div 3,
                                   frame_detections'[i].bbox, NoArg)
       /\ \A i \in DOMAIN frame_detections :
             frame_detections[i].zone \in {"gauche", "milieu", "droite"}]_vars

\* C30 witness: a frame narrower than the first ones has been processed, with
\* an object in it, in a run that has already emitted a frame.
C30_Witness ==
    /\ wpc = "overlay"
    /\ frames > 0
    /\ frame_width = MaxWidth \div 2
    /\ frame_width = src_width
    /\ frame_detections # <<>>
    /\ frame_detections[1].zone = "droite"

(* ====================== detection provider claims ====================== *)
\* the detector has no current model, or the tracker has no model
NoUsableModel == current_model = "none" \/ tracker \in {"none", "no_model"}

\* C28: a frame processed while there is no usable model gets the empty
\* detection list and no error: no camera_error, no exception, the running
\* flag as it was; and a processed frame goes on through the overlay and the
\* frame rate to frame_ready with the list it got.
C28_ProviderUnavailable ==
    [][/\ (wpc = "process" /\ wpc' # "process" /\ NoUsableModel)
          => /\ wpc' = "overlay"
             /\ frame_detections' = <<>>
             /\ camera_errors' = camera_errors
             /\ fault' = fault
             /\ running' = running
       /\ (wpc = "overlay" /\ wpc' # "overlay")
          => wpc' = "fps" /\ frame_detections' = frame_detections
       /\ (wpc = "fps" /\ wpc' # "fps")
          => wpc' = "emit" /\ frame_detections' = frame_detections
       /\ (wpc = "emit" /\ wpc' # "emit")
          => /\ wpc' = "loop"
             /\ frames' = Min(frames + 1, MaxFrames)
             /\ camera_errors' = camera_errors]_vars

\* C28 witness: no model is loaded, an object is in view, the run has emitted
\* a frame without any error and its next frame, with the empty list, is about
\* to be emitted.
C28_Witness ==
    /\ models = {}
    /\ current_model = "none"
    /\ tracker = "no_model"
    /\ scene # <<>>
    /\ wpc = "emit"
    /\ frame_detections = <<>>
    /\ frames > 0
    /\ camera_errors = 0
    /\ running

(* ========================== configuration claims ======================= *)
\* C29: the confidence threshold is never below MIN_CONF_THRESHOLD nor above
\* MAX_CONF_THRESHOLD; set_conf_threshold stores the minimum for a smaller
\* value, the maximum for a greater one, and the value itself otherwise.
C29_Clamped ==
    [][/\ MIN_CONF_THRESHOLD <= conf_threshold /\ conf_threshold <= MAX_CONF_THRESHOLD
       /\ MIN_CONF_THRESHOLD <= conf_threshold' /\ conf_threshold' <= MAX_CONF_THRESHOLD
       /\ \A threshold \in Thresholds :
             SetConfThreshold(threshold)
                => conf_threshold' =
                      IF threshold < MIN_CONF_THRESHOLD THEN MIN_CONF_THRESHOLD
                      ELSE IF threshold > MAX_CONF_THRESHOLD THEN MAX_CONF_THRESHOLD
                      ELSE threshold]_vars

\* C29 witness: the threshold has been moved to the maximum while the worker
\* was delivering frames.
C29_Witness ==
    /\ conf_threshold = MAX_CONF_THRESHOLD
    /\ frames > 0
    /\ wpc = "process"

(* ======================= stop, pause and end claims ==================== *)
\* C31: stop() returns only with the worker thread not running: the worker had
\* ended by itself before the timed wait returned and is not terminated, or it
\* was still running when the wait returned and terminate() ended it; and
\* terminate() strikes nowhere else than in a stop() whose wait found the
\* worker running.
C31_StopReturns ==
    [][/\ (cpc = "stop_wait" /\ cpc' = "idle")
            => /\ wpc' = "idle"
               /\ IF wpc = "idle" THEN killed' = killed ELSE killed' /\ ~killed
       /\ (killed' /\ ~killed) => (cpc = "stop_wait" /\ wpc # "idle")]_vars

\* C31 witness: a worker that was in its loop when stop() set the flag has
\* seen it and returned by itself, and stop() has returned without terminate().
C31_Witness ==
    /\ stop_requested
    /\ set_running
    /\ iters_after_stop = 0
    /\ cpc = "idle"
    /\ wpc = "idle"
    /\ ~killed
    /\ ~ended
    /\ fault = "none"
    /\ frames > 0

\* the signals emitted in this run
events == <<camera_errors, frames, fps_updates>>

\* C40: a live source's end of stream is met by a failed read, which emits
\* nothing and leads to finally; from then on this run emits no camera_error,
\* no frame_ready and no fps_update, and when run() returns the running flag
\* is down.
C40_SilentEnd ==
    [][/\ (~ended /\ ended')
            => /\ source_type # "file"
               /\ wpc = "read"
               /\ wpc' = "finally"
               /\ events' = events
       /\ (ended /\ ended')
            => /\ wpc' \in {"finally", "idle"}
               /\ events' = events
       /\ (ended /\ wpc = "finally" /\ wpc' = "idle" /\ ~killed') => ~running']_vars

\* C40 witness: a webcam run that had emitted frames met the end of its stream
\* and has returned, nobody having called stop(): no camera_error, running is
\* down and the capture is released.
C40_Witness ==
    /\ ended
    /\ source_type = "webcam"
    /\ wpc = "idle"
    /\ cpc = "idle"
    /\ ~stop_requested
    /\ ~killed
    /\ ~running
    /\ camera_errors = 0
    /\ frames > 0
    /\ handles = 0

(* ======================== notification state claims =================== *)
\* C32: every key recorded in last_spoken_time has been requested from the
\* speech engine at least once, and the time recorded for it is the time of
\* the latest request for it.
C32_RecordedIsRequested ==
    \A id \in DOMAIN last_spoken_time :
        /\ id \in AllIds
        /\ last_request[id] # NoTime
        /\ last_spoken_time[id] = last_request[id]

\* C32 witness: a key announced at time 0 has been announced again later, its
\* cooldown over, and the later time is recorded; another key is recorded too.
C32_Witness ==
    /\ last_op = <<"announce_detection", ObjectZoneId("person", "gauche")>>
    /\ emitted = {<<ObjectZoneId("person", "gauche"), "repeat">>}
    /\ now > 0
    /\ last_spoken_time[ObjectZoneId("person", "gauche")] = now
    /\ NO_DETECTION_ID \in DOMAIN last_spoken_time
    /\ last_spoken_time[NO_DETECTION_ID] < now

\* C34: while the paused flag stays set, frame_ready is emitted only if it has
\* not been emitted since pause() set the flag, and a frame is read only if
\* none has been read since: one frame at most, the one in flight; a test of
\* the flag that finds it set leads back to the top of the loop, and from a
\* position outside an iteration's body the worker does not enter it.
C34_InFlightFrame ==
    [][/\ (paused /\ wpc = "emit" /\ wpc' = "loop") => "frame_ready" \notin paused_work
       /\ (paused /\ wpc = "read" /\ wpc' # wpc /\ wpc' # "idle")
             => "read" \notin paused_work
       /\ (paused /\ wpc = "paused_test" /\ wpc' # wpc /\ wpc' # "idle")
             => wpc' = "loop"
       /\ (paused /\ paused' /\ wpc \notin InFrame) => wpc' \notin InFrame]_vars

\* C34 witness: pause() came after the read of a frame; that frame has been
\* emitted since, and the worker is back at the test of the flag.
C34_Witness ==
    /\ paused
    /\ "frame_ready" \in paused_work
    /\ "read" \notin paused_work
    /\ wpc = "paused_test"
    /\ frames = 1

\* C35: when a frame is handled with voice enabled, a key of the frame that is
\* recorded and still in its cooldown is not requested and keeps its
\* timestamp, whatever its group's count is now and was in the frame before;
\* a key of the frame that is requested is requested with the count it has in
\* this frame.
C35_CountChange ==
    [][HandledFrame'
         => \A det \in Detections :
               LET id == DetKey(det)
                   n == counts'[2][id]
               IN  n > 0
                     => IF id \in DOMAIN last_spoken_time
                           /\ now - last_spoken_time[id] < cooldown
                        THEN /\ id \notin EmittedIds'
                             /\ message_queue' = <<>>
                             /\ last_spoken_time'[id] = last_spoken_time[id]
                        ELSE /\ id \in EmittedIds'
                             /\ RequestText(det.class, det.zone, n, zone_checkbox)
                                    \in Queued(message_queue')
                             /\ last_spoken_time'[id] = now]_vars

\* C35 witness: one person on the left was announced; in the next frame there
\* are two, within the cooldown, and nothing has been requested.
C35_Witness ==
    /\ HandledFrame
    /\ counts[1][ObjectZoneId("person", "gauche")] = 1
    /\ counts[2][ObjectZoneId("person", "gauche")] = 2
    /\ emitted = {}
    /\ message_queue = <<>>
    /\ ObjectZoneId("person", "gauche") \in DOMAIN last_spoken_time
    /\ now - last_spoken_time[ObjectZoneId("person", "gauche")] < cooldown

(* ============================ model switch claims ====================== *)
\* C39: a switch_model call that returns False leaves the detector's model and
\* model name, the tracker and set_model's caller where they were; the model
\* and its name change only together, to a loaded model, in a call that
\* returns True, which leaves the tracker alone; set_model's second half
\* creates no tracker where there is none, a tracker being created by run()
\* only.
C39_FailedSwitchNoOp ==
    [][/\ (switch_return' # switch_return /\ switch_return' = <<FALSE>>)
            => UNCHANGED <<current_model, current_model_name, tracker, cpc>>
       /\ (current_model' # current_model \/ current_model_name' # current_model_name)
            => /\ switch_return' = <<TRUE>>
               /\ current_model' \in models
               /\ current_model_name' = current_model'
               /\ tracker' = tracker
       /\ (cpc = "set_model" /\ cpc' = "idle" /\ tracker = "none") => tracker' = "none"
       /\ (tracker = "none" /\ tracker' # "none") => wpc = "init"]_vars

\* C39 witness: the pipeline not started, set_model has switched to the other
\* loaded model without creating a tracker, and a later switch_model has
\* returned False.
C39_Witness ==
    /\ switch_return = <<FALSE>>
    /\ starts = 0
    /\ tracker = "none"
    /\ cpc = "idle"
    /\ current_model = "yolo11n"
    /\ current_model_name = "yolo11n"

(* ============================ speech worker claims ===================== *)
\* C37: once stop() has returned no utterance begins: the worker's thread has
\* ended (a thread started again ends at its first test of the flag), it holds
\* no message and the engine takes up nothing new; and the queue changes only
\* by speak() and clear_queue(): what speak() puts there is not taken from it.
C37_NothingAfterStop ==
    [][tts_stopped
         => /\ said' = said
            /\ tts_pc' \in {"done", "test"}
            /\ tts_message' = "none"
            /\ engine' \in {engine, "none"}
            /\ message_queue' # message_queue
                  => (speak_order' # speak_order \/ message_queue' = <<>>)]_vars

\* C37 witness: stop() has returned; the first message had been taken from the
\* queue and was never spoken, the second was pending and has been cleared, and
\* the third waits in the queue of a worker that has ended.
C37_Witness ==
    /\ tts_stopped
    /\ tts_stop_pc = "idle"
    /\ tts_pc = "done"
    /\ Len(speak_order) = 3
    /\ said = <<>>
    /\ failed = {}
    /\ removed = {speak_order[2]}
    /\ message_queue = <<speak_order[3]>>

\* C38: with a worker that keeps running, every message waiting in the queue
\* is in the end spoken, unless clear_queue() or an immediate speak() removed
\* it or its utterance raised, in which case the worker goes on with the next
\* message; and no message is spoken twice.
C38_EventuallySpoken ==
    /\ \A msg \in Messages :
          (msg \in Queued(message_queue))
             ~> (msg \in Queued(said) \/ msg \in removed \/ msg \in failed)
    /\ [](\A i, j \in 1..Len(said) : said[i] = said[j] => i = j)

\* C38 witness: the first message's utterance raised before it began, and the
\* second and the third message have been spoken after it, in that order.
C38_Witness ==
    /\ Len(speak_order) = 3
    /\ failed = {speak_order[1]}
    /\ removed = {}
    /\ said = <<speak_order[2], speak_order[3]>>
    /\ message_queue = <<>>

(* ============================ recorder state =========================== *)
\* C36 as stated: in every state of the recorder there is a writer exactly
\* when is_recording_flag is set, and an output path exactly when it is set.
C36_Original ==
    /\ (writer # "none") <=> is_recording_flag
    /\ (output_path # "none") <=> is_recording_flag

(* ============================ division claims ========================== *)
\* the division boundaries of a frame of width w cut into n equal ranges
DivisionBoundaries(w, n) == {(k * w) \div n : k \in 1 .. (n - 1)}

\* the range of that partition a centre lies in, counted from 0
DivisionOf(c, w, n) ==
    CHOOSE k \in 0 .. (n - 1) : (k * w) \div n <= c /\ c < ((k + 1) * w) \div n

\* the centres inside a frame that are not a division boundary
InnerCentres(w, n) == (0 .. (w - 1)) \ DivisionBoundaries(w, n)

\* C33 as stated: for a detector constructed with N divisions the zones are
\* the N equal contiguous ranges of [0, frame_width): the zone returned for a
\* centre is the zone of another centre exactly when both lie in the same
\* range (centres on a division boundary left aside).
C33_Original ==
    (/\ frame_width # NoWidth
     /\ zone_call # <<>>
     /\ zone_call[1].bbox = NoArg
     /\ zone_call[1].center_x # NoArg
     /\ zone_call[1].center_x[1] \in InnerCentres(frame_width, divisions))
        => \A c \in InnerCentres(frame_width, divisions) :
              (get_zone(ZoneDetector, NoArg, <<c>>) = zone_call[1].zone)
                 <=> (DivisionOf(c, frame_width, divisions)
                        = DivisionOf(zone_call[1].center_x[1], frame_width, divisions))

====
